---- MODULE Spec2Model ----
(***************************************************************************)
(* SABA lifecycle orchestration engine: StateManager, ApprovalEngine,      *)
(* DeploymentEngine, MonitorEngine, RecoveryEngine and the orchestrator's  *)
(* admin command handlers.                                                 *)
(*                                                                         *)
(* The engines are modelled as operators over a "world" record w that      *)
(* holds the persisted tables and the engines' in-memory maps; an operator *)
(* returns the world after the call (and the call's return value).  The    *)
(* actions of the specifications apply one whole call to the current       *)
(* world.  Outcomes decided outside the program (container runtime calls,  *)
(* npm install/build, the error count read from the logs) are the fields   *)
(* of an "env" record chosen nondeterministically by each action.          *)
(* The database and the notification channel answer every call: a call    *)
(* that raises there is caught by its caller, which then returns false or  *)
(* nothing and writes no state.                                            *)
(***************************************************************************)
EXTENDS Integers, Sequences, FiniteSets, TLC

VARIABLES
  agents,            \* agents table: id -> status column, NoAgent if no row
  plans,             \* plans table: id -> the "detailed" plan row [exists, alert_conditions]
  deployments,       \* DeploymentEngine.deployments: id -> [target, status]
  processes,         \* DeploymentEngine.processes: id -> a handle is in the map
  containers,        \* container runtime: id -> the agent's container is running
  sessions,          \* MonitorEngine.sessions: id -> [live, strategy, healthHistory]
  recoveryAttempts,  \* RecoveryEngine.recoveryAttempts: id -> failure type -> count
  obs,               \* the last call: operation, arguments, return value, calls made
  dispatchTotal,     \* history: id -> failure type -> strategies dispatched so far
  dispatchRun,       \* history: the same, since the last successful recovery
  workflow,          \* runAgentCreationWorkflow: id -> the stage it runs next
  approvalStatus,    \* approvals table: the status column of the approval row
  statusWrites,      \* history: the statuses written to the row after its INSERT
  respondedAt,       \* history: when the row's status first left PENDING, -1 if never
  now,               \* Date.now(), in milliseconds
  waiter,            \* the running waitForApproval call
  procs,             \* child processes: id -> [handle, live, killed, spawned]
  deploying,         \* the deployAgent call suspended in deployLocal's sleep(2000)
  restarting,        \* the restartAgent call: its position and what it has done
  workflowRisk,      \* runAgentCreationWorkflow: id -> the risk level it holds
  workflowLog,       \* history: id -> the gated calls its workflow has made
  hostConfig,        \* deployDocker: the resource limits and their translation
  historyPush,       \* performHealthCheck: a session's history before and after a push
  names,             \* agents table: id -> name column, of the rows createAgent inserted
  creating,          \* the createAgent calls: caller -> position, name, result
  transiting,        \* the admin handlers: command -> position in transitionState
  monitoring         \* interval timers, startMonitoring calls and the tick in flight

coreVars == <<agents, plans, deployments, processes, containers, sessions,
              recoveryAttempts, obs, dispatchTotal, dispatchRun, workflow>>

approvalVars == <<approvalStatus, statusWrites, respondedAt, now, waiter>>

deployVars == <<procs, deploying, restarting>>

workflowVars == <<workflowRisk, workflowLog>>

limitVars == <<hostConfig, historyPush>>

taskVars == <<names, creating, transiting, monitoring>>

vars == <<coreVars, approvalVars, deployVars, workflowVars, limitVars, taskVars>>

-----------------------------------------------------------------------------
(* Identifiers and enumerations                                            *)

AgentIds == {"a1", "a2"}

NoAgent == "NONE"

AgentState ==
  {"REQUESTED", "PLANNING_INITIAL", "PLANNING_DETAILED", "SECURITY_DEFINED",
   "WAITING_APPROVAL", "GENERATING", "VALIDATING", "DEPLOYING", "ACTIVE",
   "PAUSED", "FAILED", "DELETED"}

\* CLOUD stands for the targets deployAgent does not support (cloud, vm, server)
DeploymentTarget == {"LOCAL", "DOCKER", "CLOUD"}

\* the four failure types recover() names, and one tag it does not know
FailureTypes ==
  {"generation_failure", "validation_failure", "deployment_failure",
   "runtime_crash", "unknown_failure"}

\* config.security.maxRetryAttempts (MAX_RETRY_ATTEMPTS, default 3)
maxRetryAttempts == 3

\* config.monitoring.alertErrorThreshold (ALERT_ERROR_THRESHOLD, default 10)
alertErrorThreshold == 10

\* MonitorEngine keeps the last 100 health checks
healthHistoryLimit == 100

\* handleUnhealthy looks at the last 5 checks and restarts at 3 unhealthy
recentWindow == 5
unhealthyRestartCount == 3

-----------------------------------------------------------------------------
(* StateManager                                                            *)

VALID_TRANSITIONS ==
  [s \in AgentState |->
     CASE s = "REQUESTED"         -> {"PLANNING_INITIAL", "FAILED"}
       [] s = "PLANNING_INITIAL"  -> {"PLANNING_DETAILED", "WAITING_APPROVAL", "FAILED"}
       [] s = "PLANNING_DETAILED" -> {"SECURITY_DEFINED", "FAILED"}
       [] s = "SECURITY_DEFINED"  -> {"WAITING_APPROVAL", "FAILED"}
       [] s = "WAITING_APPROVAL"  -> {"GENERATING", "PLANNING_DETAILED", "FAILED"}
       [] s = "GENERATING"        -> {"VALIDATING", "FAILED"}
       [] s = "VALIDATING"        -> {"DEPLOYING", "GENERATING", "FAILED"}
       [] s = "DEPLOYING"         -> {"ACTIVE", "FAILED"}
       [] s = "ACTIVE"            -> {"PAUSED", "DELETED", "FAILED"}
       [] s = "PAUSED"            -> {"ACTIVE", "DELETED"}
       [] s = "FAILED"            -> {"REQUESTED", "GENERATING", "DELETED"}
       [] s = "DELETED"           -> {}]

\* a faulty isValidTransition: FAILED is accepted from every state
isValidTransitionOrFailed(fromState, toState) ==
  toState \in VALID_TRANSITIONS[fromState] \cup {"FAILED"}

isValidTransition(fromState, toState) ==
  toState \in VALID_TRANSITIONS[fromState]

isTerminalState(state) == VALID_TRANSITIONS[state] = {}

Bool(b) == IF b THEN "true" ELSE "false"

\* a collaborator call made by the running handler, in call order
Called(w, fn, arg) ==
  [w EXCEPT !.calls = Append(@, [fn |-> fn, arg |-> arg])]

\* transitionState: [ret, w]
transitionState(w, agentId, toState) ==
  IF w.agents[agentId] = NoAgent
    THEN [ret |-> FALSE, w |-> w]
  ELSE IF ~isValidTransition(w.agents[agentId], toState)
    THEN [ret |-> FALSE, w |-> w]
  ELSE [ret |-> TRUE,
        w |-> Called([w EXCEPT !.agents[agentId] = toState],
                     "updateAgentState", toState)]

\* a faulty transitionToFailed: the state is logged as FAILED but not persisted
transitionToFailedNotPersisted(w, agentId, reason) ==
  IF w.agents[agentId] = NoAgent
    THEN w
    ELSE Called(w, "logger.error", "Agent transitioned to FAILED state: " \o reason)

\* transitionToFailed: the world after the call
transitionToFailed(w, agentId, reason) ==
  IF w.agents[agentId] = NoAgent
    THEN w
    ELSE Called(Called([w EXCEPT !.agents[agentId] = "FAILED"],
                       "updateAgentState", "FAILED"),
                "logger.error", "Agent transitioned to FAILED state: " \o reason)

-----------------------------------------------------------------------------
(* TelegramInterface notifications (every send swallows its own errors)    *)

sendError(w, text)        == Called(w, "sendError", text)
sendAlert(w, text)        == Called(w, "sendAlert", text)
sendSuccess(w, text)      == Called(w, "sendSuccess", text)
sendStatusUpdate(w, text) == Called(w, "sendStatusUpdate", text)

-----------------------------------------------------------------------------
(* DeploymentEngine                                                        *)

NoDeployment == [target |-> "none", status |-> "none"]

\* outcomes decided outside the program, one choice per handler run
Envs ==
  [ok: BOOLEAN,             \* LOCAL: npm install, npm run build and spawn succeed;
                            \* DOCKER: the container runtime call succeeds
   inspectOk: BOOLEAN,      \* container.inspect() answers
   errorCount: {0, alertErrorThreshold + 1}]   \* getRecentErrors(agentId, 10).length

\* the choices for a handler that runs no health check
OpEnvs == {env \in Envs : env.inspectOk /\ env.errorCount = 0}

\* deployLocal up to its sleep(2000): npm install, npm run build, spawn, and
\* processes.set(agentId, childProcess), which replaces any handle in the map
deployLocalSpawn(w, agentId, env) ==
  IF env.ok
    THEN [spawned |-> TRUE,
          w |-> Called([w EXCEPT !.processes[agentId] = TRUE], "spawn", agentId)]
    ELSE [spawned |-> FALSE, w |-> w]

\* deployLocal after the sleep: childProcess.killed, which is set by a
\* kill() of this program and by nothing the child does, decides the result
deployLocalResult(killed) == ~killed

\* deployLocal: [success, w], when no other call runs during the sleep
deployLocal(w, agentId, env) ==
  LET s == deployLocalSpawn(w, agentId, env) IN
  [success |-> s.spawned /\ deployLocalResult(FALSE), w |-> s.w]

deployDocker(w, agentId, env) ==
  IF env.ok
    THEN [success |-> TRUE, w |-> [w EXCEPT !.containers[agentId] = TRUE]]
    ELSE [success |-> FALSE, w |-> w]

\* deployAgent after its target's deploy returned: deployments.set on success
deployAgentResult(result, agentId, target) ==
  IF result.success
    THEN [success |-> TRUE,
          w |-> [result.w EXCEPT !.deployments[agentId] =
                   [target |-> target, status |-> "running"]]]
    ELSE [success |-> FALSE, w |-> result.w]

\* deployAgent: [success, w]
deployAgent(w, agentId, target, env) ==
  deployAgentResult(CASE target = "LOCAL"  -> deployLocal(w, agentId, env)
                      [] target = "DOCKER" -> deployDocker(w, agentId, env)
                      [] OTHER -> [success |-> FALSE, w |-> w],
                    agentId, target)

\* stopAgent: [ret, w]
stopAgent(w, agentId, env) ==
  LET deployment == w.deployments[agentId] IN
  IF deployment.status = "none"
    THEN [ret |-> FALSE, w |-> w]
  ELSE IF deployment.target = "LOCAL"
    THEN [ret |-> TRUE,
          w |-> [(IF w.processes[agentId]
                    THEN Called(w, "kill", agentId) ELSE w)
                   EXCEPT !.processes[agentId] = FALSE,
                          !.deployments[agentId].status = "stopped"]]
  ELSE IF ~env.ok
    THEN [ret |-> FALSE, w |-> w]
  ELSE [ret |-> TRUE,
        w |-> [w EXCEPT !.containers[agentId] = FALSE,
                        !.deployments[agentId].status = "stopped"]]

\* startAgent: [ret, w]; the local path redeploys and ignores the result
startAgent(w, agentId, env) ==
  LET deployment == w.deployments[agentId] IN
  IF deployment.status = "none"
    THEN [ret |-> FALSE, w |-> w]
  ELSE IF deployment.target = "DOCKER"
    THEN IF ~env.ok
           THEN [ret |-> FALSE, w |-> w]
           ELSE [ret |-> TRUE,
                 w |-> [w EXCEPT !.containers[agentId] = TRUE,
                                 !.deployments[agentId].status = "running"]]
  ELSE IF w.agents[agentId] = NoAgent \/ ~w.plans[agentId].exists
    THEN [ret |-> FALSE, w |-> w]
  ELSE [ret |-> TRUE,
        w |-> [deployLocal(w, agentId, env).w
                 EXCEPT !.deployments[agentId].status = "running"]]

\* the delay between restartAgent's stop and its start
restartDelayMs == 2000

\* sleep(ms) called at time t resolves at t + ms
sleepNoDelay(t, ms) == t

sleep(t, ms) == t + ms

\* restartAgent: stop, sleep(2000), start
restartAgent(w, agentId, env) ==
  startAgent(stopAgent(w, agentId, env).w, agentId, env)

getDeploymentStatus(w, agentId) == w.deployments[agentId]

isAgentRunning(w, agentId, env) ==
  LET deployment == w.deployments[agentId] IN
  IF deployment.status = "none" THEN FALSE
  ELSE IF deployment.target = "LOCAL" THEN w.processes[agentId]
  ELSE env.inspectOk /\ w.containers[agentId]

-----------------------------------------------------------------------------
(* MonitorEngine                                                           *)

NoSession == [live |-> FALSE, strategy |-> <<>>, healthHistory |-> <<>>]

\* strategy.alert_conditions of the monitoring strategies the plans carry
AlertStrategies ==
  { <<>>,
    << [metric |-> "error_count", threshold |-> alertErrorThreshold,
        comparison |-> ">", action |-> "restart"] >>,
    << [metric |-> "error_count", threshold |-> alertErrorThreshold + 1,
        comparison |-> ">=", action |-> "pause"] >>,
    << [metric |-> "cpu_usage_percent", threshold |-> 0,
        comparison |-> ">", action |-> "restart"],
       [metric |-> "error_count", threshold |-> 0,
        comparison |-> "!=", action |-> "escalate"],
       [metric |-> "error_count", threshold |-> 0,
        comparison |-> "==", action |-> "notify"] >> }

NoPlan == [exists |-> FALSE, alert_conditions |-> <<>>]

\* healthStatus.metrics holds error_count only; any other metric is undefined
metricDefined(metric) == metric = "error_count"

compare(metricValue, comparison, threshold) ==
  CASE comparison = ">"  -> metricValue > threshold
    [] comparison = "<"  -> metricValue < threshold
    [] comparison = ">=" -> metricValue >= threshold
    [] comparison = "<=" -> metricValue <= threshold
    [] comparison = "==" -> metricValue = threshold
    [] comparison = "!=" -> metricValue # threshold
    [] OTHER -> FALSE

stopMonitoring(w, agentId) ==
  IF w.sessions[agentId].live
    THEN [w EXCEPT !.sessions[agentId] = NoSession]
    ELSE w

handleAlert(w, agentId, condition, env) ==
  LET w1 == sendAlert(w, "Monitoring Alert") IN
  CASE condition.action = "restart" ->
         restartAgent(Called(w1, "restartAgent", "handleAlert"), agentId, env).w
    [] condition.action = "pause" ->
         stopAgent(Called(w1, "stopAgent", "handleAlert"), agentId, env).w
    [] condition.action = "escalate" ->
         sendAlert(w1, "CRITICAL ALERT - Escalation Required")
    [] OTHER -> w1

RECURSIVE checkAlertConditions(_, _, _, _, _)
checkAlertConditions(w, agentId, errorCount, conditions, env) ==
  IF conditions = <<>> THEN w
  ELSE LET condition == Head(conditions)
           w1 == IF metricDefined(condition.metric)
                    /\ compare(errorCount, condition.comparison, condition.threshold)
                   THEN handleAlert(w, agentId, condition, env)
                   ELSE w
       IN checkAlertConditions(w1, agentId, errorCount, Tail(conditions), env)

lastChecks(history, n) ==
  SubSeq(history, IF Len(history) > n THEN Len(history) - n + 1 ELSE 1, Len(history))

recentUnhealthy(history) ==
  Cardinality({i \in DOMAIN lastChecks(history, recentWindow) :
                 lastChecks(history, recentWindow)[i] = "unhealthy"})

\* a faulty handleUnhealthy: restarts without counting the recent checks
handleUnhealthyAlwaysRestarts(w, agentId, reason, env) ==
  LET w1 == sendAlert(w, "Agent Unhealthy") IN
  IF ~w1.sessions[agentId].live THEN w1
  ELSE LET r == restartAgent(Called(w1, "restartAgent", "handleUnhealthy"),
                             agentId, env)
       IN IF r.ret THEN sendStatusUpdate(r.w, "Restarted")
                   ELSE sendError(r.w, "Failed to restart agent automatically")

handleUnhealthy(w, agentId, reason, env) ==
  LET w1 == sendAlert(w, "Agent Unhealthy") IN
  IF ~w1.sessions[agentId].live THEN w1
  ELSE IF recentUnhealthy(w1.sessions[agentId].healthHistory) >= unhealthyRestartCount
    THEN LET r == restartAgent(Called(w1, "restartAgent", "handleUnhealthy"),
                               agentId, env)
         IN IF r.ret THEN sendStatusUpdate(r.w, "Restarted")
                     ELSE sendError(r.w, "Failed to restart agent automatically")
  ELSE w1

\* a faulty classification: the error count is looked at first
healthStatusOfErrorsFirst(isRunning, errorCount) ==
  IF errorCount > alertErrorThreshold THEN "degraded"
  ELSE IF ~isRunning THEN "unhealthy"
  ELSE "healthy"

healthStatusOf(isRunning, errorCount) ==
  IF ~isRunning THEN "unhealthy"
  ELSE IF errorCount > alertErrorThreshold THEN "degraded"
  ELSE "healthy"

\* a faulty ring: the oldest result is evicted when the limit is reached
pushHealthStatusEvictsAtLimit(history, status) ==
  LET pushed == Append(history, status) IN
  IF Len(pushed) >= healthHistoryLimit THEN Tail(pushed) ELSE pushed

pushHealthStatus(history, status) ==
  LET pushed == Append(history, status) IN
  IF Len(pushed) > healthHistoryLimit THEN Tail(pushed) ELSE pushed

\* performHealthCheck after it found a session; strategy: the argument of
\* the call; attached: the session it holds is still the one in the map,
\* so that its push to healthHistory shows there
healthCheckBody(w, agentId, strategy, attached, env) ==
  IF getDeploymentStatus(w, agentId).status = "none"
    THEN handleUnhealthy(w, agentId, "No deployment found", env)
  ELSE LET status == healthStatusOf(isAgentRunning(w, agentId, env), env.errorCount)
           w1 == Called(IF attached
                          THEN [w EXCEPT !.sessions[agentId].healthHistory =
                                           pushHealthStatus(@, status)]
                          ELSE w,
                        "healthCheck", status)
           w2 == checkAlertConditions(w1, agentId, env.errorCount, strategy, env)
       IN IF status = "unhealthy"
            THEN handleUnhealthy(w2, agentId, "Agent is not running", env)
            ELSE w2

performHealthCheck(w, agentId, env) ==
  IF ~w.sessions[agentId].live THEN w
  ELSE healthCheckBody(w, agentId, w.sessions[agentId].strategy, TRUE, env)

\* startMonitoring: replace the session, then the initial health check
startMonitoring(w, agentId, strategy, env) ==
  performHealthCheck(
    [stopMonitoring(w, agentId) EXCEPT !.sessions[agentId] =
       [live |-> TRUE, strategy |-> strategy, healthHistory |-> <<>>]],
    agentId, env)

-----------------------------------------------------------------------------
(* RecoveryEngine                                                          *)

recoverGenerationFailure(w, agentId) ==
  transitionState(w, agentId, "GENERATING")

recoverValidationFailure(w, agentId, hasErrors) ==
  IF hasErrors
    THEN transitionState(w, agentId, "GENERATING")
    ELSE [ret |-> FALSE, w |-> w]

recoverDeploymentFailure(w, agentId, env) ==
  transitionState(stopAgent(Called(w, "stopAgent", "recover"), agentId, env).w,
                  agentId, "DEPLOYING")

\* a faulty strategy: a failed restart moves the agent to FAILED
recoverRuntimeCrashFailsAgent(w, agentId, env) ==
  LET r == restartAgent(Called(w, "restartAgent", "recover"), agentId, env) IN
  IF r.ret THEN r
  ELSE [ret |-> FALSE, w |-> transitionToFailed(r.w, agentId, "Restart failed")]

recoverRuntimeCrash(w, agentId, env) ==
  restartAgent(Called(w, "restartAgent", "recover"), agentId, env)

\* a faulty default path: the strategy reports a success
recoverGenericFailureSucceeds(w, agentId, failureType) ==
  [ret |-> TRUE,
   w |-> transitionToFailed(w, agentId, "Unrecoverable failure: " \o failureType)]

recoverGenericFailure(w, agentId, failureType) ==
  [ret |-> FALSE,
   w |-> transitionToFailed(w, agentId, "Unrecoverable failure: " \o failureType)]

getRecoveryStrategy(failureType) ==
  CASE failureType = "generation_failure" -> "retry_generation"
    [] failureType = "validation_failure" -> "repair_and_regenerate"
    [] failureType = "deployment_failure" -> "rollback_and_retry"
    [] failureType = "runtime_crash"      -> "automatic_restart"
    [] OTHER -> "manual_intervention"

\* a faulty ceiling test: one attempt too many
maxRetriesExceededOffByOne(attempts) == attempts > maxRetryAttempts

\* recover's test "max retries exceeded"
maxRetriesExceeded(attempts) == attempts >= maxRetryAttempts

\* recover's counter increment; "dispatch" marks the call of the strategy
recoverDispatch(w, agentId, failureType) ==
  Called([w EXCEPT !.recoveryAttempts[agentId][failureType] = @ + 1],
         "dispatch", getRecoveryStrategy(failureType))

\* recover's switch
recoverStrategy(w1, agentId, failureType, hasErrors, env) ==
  CASE failureType = "generation_failure" ->
         recoverGenerationFailure(w1, agentId)
    [] failureType = "validation_failure" ->
         recoverValidationFailure(w1, agentId, hasErrors)
    [] failureType = "deployment_failure" ->
         recoverDeploymentFailure(w1, agentId, env)
    [] failureType = "runtime_crash" ->
         recoverRuntimeCrash(w1, agentId, env)
    [] OTHER ->
         recoverGenericFailure(w1, agentId, failureType)

\* a faulty reset: success clears every counter of the agent
recoverOutcomeClearsAgent(r, agentId, failureType, attempts) ==
  IF r.ret
    THEN [ret |-> TRUE,
          w |-> sendSuccess(
                  [r.w EXCEPT !.recoveryAttempts[agentId] =
                     [f \in FailureTypes |-> 0]],
                  "Recovery successful for " \o failureType)]
    ELSE [ret |-> FALSE, w |-> sendAlert(r.w, "Recovery Attempt Failed")]

\* recover after its strategy returned r: the counter reset, the notification
recoverOutcome(r, agentId, failureType, attempts) ==
  IF r.ret
    THEN [ret |-> TRUE,
          w |-> sendSuccess(
                  [r.w EXCEPT !.recoveryAttempts[agentId][failureType] = 0],
                  "Recovery successful for " \o failureType)]
    ELSE [ret |-> FALSE,
          w |-> sendAlert(r.w, "Failed to recover from " \o failureType
                               \o ". Attempt " \o ToString(attempts + 1)
                               \o "/" \o ToString(maxRetryAttempts))]

\* recover: [ret, w]
recover(w, agentId, failureType, hasErrors, env) ==
  IF w.agents[agentId] = NoAgent THEN [ret |-> FALSE, w |-> w]
  ELSE
  LET attempts == w.recoveryAttempts[agentId][failureType] IN
  IF maxRetriesExceeded(attempts)
    THEN [ret |-> FALSE,
          w |-> transitionToFailed(
                  sendError(w, "Recovery failed after " \o ToString(attempts)
                               \o " attempts: " \o failureType),
                  agentId, "Recovery failed: " \o failureType)]
  ELSE
  recoverOutcome(recoverStrategy(recoverDispatch(w, agentId, failureType),
                                 agentId, failureType, hasErrors, env),
                 agentId, failureType, attempts)

\* the collaborator call of recover that raises: none, its first read of
\* the agent row, a write of the agent's state, or the write of the
\* recovery action to the log table
Faults == {"none", "getAgent", "updateAgentState", "log"}

\* the strategy when updateAgentState raises: transitionState catches the
\* fault and returns false, transitionToFailed lets it through
recoverStrategyWriteFault(w1, agentId, failureType, hasErrors, env) ==
  CASE failureType \in {"generation_failure", "validation_failure"} ->
         [ret |-> "false", w |-> w1]
    [] failureType = "deployment_failure" ->
         [ret |-> "false",
          w |-> stopAgent(Called(w1, "stopAgent", "recover"), agentId, env).w]
    [] failureType = "runtime_crash" ->
         LET r == recoverRuntimeCrash(w1, agentId, env) IN
         [ret |-> Bool(r.ret), w |-> r.w]
    [] OTHER -> [ret |-> "raised", w |-> w1]

\* recover with one raising collaborator: ret is "true", "false", or
\* "raised" when the fault leaves recover
recoverUnderFault(w, agentId, failureType, hasErrors, env, fault) ==
  LET attempts == w.recoveryAttempts[agentId][failureType]
      r == recover(w, agentId, failureType, hasErrors, env)
      w1 == recoverDispatch(w, agentId, failureType)
  IN
  IF fault = "none" THEN [ret |-> Bool(r.ret), w |-> r.w]
  ELSE IF fault = "getAgent" THEN [ret |-> "raised", w |-> w]
  ELSE IF w.agents[agentId] = NoAgent THEN [ret |-> "false", w |-> w]
  ELSE IF maxRetriesExceeded(attempts)
    THEN IF fault = "updateAgentState"
           THEN [ret |-> "raised",
                 w |-> sendError(w, "Recovery failed after "
                                    \o ToString(attempts) \o " attempts: "
                                    \o failureType)]
           ELSE [ret |-> Bool(r.ret), w |-> r.w]
  ELSE IF fault = "updateAgentState"
    THEN LET s == recoverStrategyWriteFault(w1, agentId, failureType,
                                            hasErrors, env)
         IN IF s.ret = "raised" THEN [ret |-> "false", w |-> s.w]
            ELSE LET o == recoverOutcome([ret |-> s.ret = "true", w |-> s.w],
                                         agentId, failureType, attempts)
                 IN [ret |-> Bool(o.ret), w |-> o.w]
  ELSE [ret |-> "false",
        w |-> recoverStrategy(w1, agentId, failureType, hasErrors, env).w]

-----------------------------------------------------------------------------
(* Orchestrator: runAgentCreationWorkflow (index.ts), one stage at a time. *)
(* A stage operator returns the world after the stage and the stage that   *)
(* runs next; the results of transitionState are not looked at.            *)

WorkflowStages ==
  {"initial", "detailed", "approval", "generate", "validate", "deploy", "monitor"}

\* the state each stage first asks the StateManager for
StageState(stage) ==
  CASE stage = "initial"  -> "PLANNING_INITIAL"
    [] stage = "detailed" -> "PLANNING_DETAILED"
    [] stage = "approval" -> "WAITING_APPROVAL"
    [] stage = "generate" -> "GENERATING"
    [] stage = "validate" -> "VALIDATING"
    [] stage = "deploy"   -> "DEPLOYING"
    [] OTHER              -> "ACTIVE"

RiskLevel == {"SAFE", "MODERATE", "SENSITIVE", "CRITICAL"}

ApprovalType ==
  {"INITIAL_PLAN", "DETAILED_PLAN", "SECURITY_RULES", "DEPLOYMENT",
   "MODIFICATION", "DELETION"}

\* a faulty shouldRequestApproval: MODERATE risk asks for nothing
shouldRequestApprovalModerateNever(riskLevel, approvalType) ==
  IF riskLevel \in {"CRITICAL", "SENSITIVE"} THEN TRUE
  ELSE IF riskLevel = "MODERATE" THEN FALSE
  ELSE IF approvalType \in {"MODIFICATION", "DELETION"} THEN TRUE
  ELSE approvalType = "DETAILED_PLAN"

\* a faulty shouldRequestApproval: a SAFE agent's initial plan is gated too
shouldRequestApprovalAlways(riskLevel, approvalType) == TRUE

\* ApprovalEngine.shouldRequestApproval, rule by rule in the order of the code
shouldRequestApproval(riskLevel, approvalType) ==
  IF riskLevel = "CRITICAL" THEN TRUE
  ELSE IF riskLevel = "SENSITIVE" THEN TRUE
  ELSE IF riskLevel = "MODERATE"
            /\ approvalType \in {"DEPLOYMENT", "SECURITY_RULES"} THEN TRUE
  ELSE IF approvalType \in {"MODIFICATION", "DELETION"} THEN TRUE
  ELSE IF riskLevel = "SAFE" /\ approvalType = "INITIAL_PLAN" THEN FALSE
  ELSE IF approvalType = "DETAILED_PLAN" THEN TRUE
  ELSE FALSE

\* the statuses waitForApproval returns
Resolutions == {"APPROVED", "REJECTED", "TIMEOUT"}

\* a faulty comparison: only an explicit rejection stops the workflow
approvalGrantedUnlessRejected(status) == status # "REJECTED"

\* status === ApprovalStatus.APPROVED
approvalGranted(status) == status = "APPROVED"

\* requestInitialPlanApproval, requestDetailedPlanApproval and
\* requestDeploymentApproval: [ret, w]; status: what waitForApproval returns
requestTypedApproval(w, riskLevel, approvalType, status) ==
  IF ~shouldRequestApproval(riskLevel, approvalType)
    THEN [ret |-> TRUE, w |-> w]
    ELSE [ret |-> approvalGranted(status),
          w |-> Called(Called(w, "requestApproval", approvalType),
                       "waitForApproval", approvalType \o ":" \o status)]

\* Stage 1; riskLevel: initialPlan.risk_level
stageInitialPlan(w, agentId, riskLevel, status) ==
  LET w1 == sendStatusUpdate(transitionState(w, agentId, "PLANNING_INITIAL").w,
                             "Initial plan created")
      w2 == transitionState(w1, agentId, "WAITING_APPROVAL").w
      approved == requestTypedApproval(w2, riskLevel, "INITIAL_PLAN", status)
  IN IF ~shouldRequestApproval(riskLevel, "INITIAL_PLAN")
       THEN [next |-> "detailed", w |-> w1]
     ELSE IF approved.ret THEN [next |-> "detailed", w |-> approved.w]
     ELSE [next |-> "done",
           w |-> transitionToFailed(approved.w, agentId,
                                    "Initial plan rejected")]

\* Stages 2 and 3; createDetailedPlan saves the "detailed" plan
stageDetailedPlan(w, agentId, conditions) ==
  LET w1 == transitionState(w, agentId, "PLANNING_DETAILED").w
      w2 == sendStatusUpdate(
              [w1 EXCEPT !.plans[agentId] =
                 [exists |-> TRUE, alert_conditions |-> conditions]],
              "Detailed plan created")
  IN [next |-> "approval",
      w |-> transitionState(w2, agentId, "SECURITY_DEFINED").w]

\* Stage 4 up to its approval request
stageApprovalBegin(w, agentId) ==
  transitionState(w, agentId, "WAITING_APPROVAL").w

\* Stage 4 from its approval request on; status: what waitForApproval returns
stageApprovalEnd(w1, agentId, riskLevel, status) ==
  LET approved == requestTypedApproval(w1, riskLevel, "DETAILED_PLAN", status)
  IN IF approved.ret THEN [next |-> "generate", w |-> approved.w]
     ELSE [next |-> "done",
           w |-> transitionToFailed(approved.w, agentId,
                                    "Detailed plan rejected")]

\* Stage 4; riskLevel: classifyRiskLevel(detailedPlan)
stageApproval(w, agentId, riskLevel, status) ==
  stageApprovalEnd(stageApprovalBegin(w, agentId), agentId, riskLevel, status)

\* Stage 5
stageGenerate(w, agentId) ==
  [next |-> "validate",
   w |-> sendStatusUpdate(
           Called(transitionState(w, agentId, "GENERATING").w,
                  "generateAgent", agentId),
           "Agent code generated")]

\* Stage 6; a failed validation hands its result to recover
stageValidate(w, agentId, passed, env) ==
  LET w1 == Called(transitionState(w, agentId, "VALIDATING").w,
                   "validateAgent", Bool(passed)) IN
  IF passed
    THEN [next |-> "deploy", w |-> sendStatusUpdate(w1, "Validation passed")]
    ELSE [next |-> "done",
          w |-> recover(sendAlert(w1, "Validation Failed"), agentId,
                        "validation_failure", TRUE, env).w]

\* Stage 7; riskLevel: the level Stage 4 used
stageDeploy(w, agentId, riskLevel, status, target, env) ==
  LET w1 == transitionState(w, agentId, "DEPLOYING").w
      approved == requestTypedApproval(w1, riskLevel, "DEPLOYMENT", status)
      deployed == deployAgent(approved.w, agentId, target, env)
      deploymentResult ==
        [success |-> deployed.success,
         w |-> Called(deployed.w, "deployAgent", Bool(deployed.success))]
  IN IF ~approved.ret
       THEN [next |-> "done",
             w |-> transitionToFailed(approved.w, agentId,
                                      "Deployment rejected")]
     ELSE IF ~deploymentResult.success
       THEN [next |-> "done",
             w |-> recover(sendError(deploymentResult.w, "Deployment failed"),
                           agentId, "deployment_failure", FALSE, env).w]
     ELSE [next |-> "monitor", w |-> deploymentResult.w]

\* Stage 8
stageMonitor(w, agentId, env) ==
  LET w1 == Called(transitionState(w, agentId, "ACTIVE").w,
                   "startMonitoring", agentId) IN
  [next |-> "done",
   w |-> sendSuccess(startMonitoring(w1, agentId,
                                     w1.plans[agentId].alert_conditions, env),
                     "Agent deployed successfully")]

\* an engine call of the stage throws: the workflow's catch moves the agent
\* to FAILED and rethrows, and createAgent's handler calls recover
workflowError(w, agentId, stage, env) ==
  recover(transitionToFailed(transitionState(w, agentId, StageState(stage)).w,
                             agentId, "Workflow error"),
          agentId, "generation_failure", FALSE, env).w

-----------------------------------------------------------------------------
(* Orchestrator admin command handlers (index.ts)                          *)

\* handleStopAgent: the world after the handler
handleStopAgent(w, agentId, env) ==
  IF w.agents[agentId] = NoAgent THEN sendError(w, "Agent not found")
  ELSE LET stopped == stopAgent(w, agentId, env) IN
       IF stopped.ret
         THEN sendSuccess(
                transitionState(stopMonitoring(stopped.w, agentId),
                                agentId, "PAUSED").w,
                "Agent stopped")
         ELSE sendError(stopped.w, "Failed to stop agent")

\* handleStartAgent: the result of transitionState(ACTIVE) is not looked at
handleStartAgent(w, agentId, env) ==
  IF w.agents[agentId] = NoAgent THEN sendError(w, "Agent not found")
  ELSE LET started == startAgent(w, agentId, env) IN
       IF started.ret
         THEN LET w1 == transitionState(started.w, agentId, "ACTIVE").w
                  w2 == IF w1.plans[agentId].exists
                          THEN startMonitoring(w1, agentId,
                                 w1.plans[agentId].alert_conditions, env)
                          ELSE w1
              IN sendSuccess(w2, "Agent started")
         ELSE sendError(started.w, "Failed to start agent")

\* handleDeleteAgent: stop and cleanup, then transitionState(DELETED)
handleDeleteAgent(w, agentId, env) ==
  IF w.agents[agentId] = NoAgent THEN sendError(w, "Agent not found")
  ELSE sendSuccess(
         transitionState(
           stopMonitoring(stopAgent(w, agentId, env).w, agentId),
           agentId, "DELETED").w,
         "Agent deleted")

-----------------------------------------------------------------------------
(* State, and the calls as actions                                         *)

\* the world a call starts from: the state, with an empty call log
World ==
  [agents |-> agents, plans |-> plans, deployments |-> deployments,
   processes |-> processes, containers |-> containers, sessions |-> sessions,
   recoveryAttempts |-> recoveryAttempts, calls |-> <<>>]

SetWorld(w) ==
  /\ agents' = w.agents
  /\ plans' = w.plans
  /\ deployments' = w.deployments
  /\ processes' = w.processes
  /\ containers' = w.containers
  /\ sessions' = w.sessions
  /\ recoveryAttempts' = w.recoveryAttempts

\* what a caller of the operation observes
Observe(op, agentId, arg, ret, w) ==
  obs' = [op |-> op, agent |-> agentId, arg |-> arg,
          pre |-> agents[agentId],
          preAttempts |-> IF arg \in FailureTypes
                            THEN recoveryAttempts[agentId][arg] ELSE 0,
          ret |-> ret, calls |-> w.calls]

NoObs ==
  [op |-> "none", agent |-> "none", arg |-> "none", pre |-> NoAgent,
   preAttempts |-> 0, ret |-> "void", calls |-> <<>>]

CoreInit ==
  /\ agents = [a \in AgentIds |-> NoAgent]
  /\ plans = [a \in AgentIds |-> NoPlan]
  /\ deployments = [a \in AgentIds |-> NoDeployment]
  /\ processes = [a \in AgentIds |-> FALSE]
  /\ containers = [a \in AgentIds |-> FALSE]
  /\ sessions = [a \in AgentIds |-> NoSession]
  /\ recoveryAttempts = [a \in AgentIds |-> [f \in FailureTypes |-> 0]]
  /\ obs = NoObs
  /\ dispatchTotal = [a \in AgentIds |-> [f \in FailureTypes |-> 0]]
  /\ dispatchRun = [a \in AgentIds |-> [f \in FailureTypes |-> 0]]
  /\ workflow = [a \in AgentIds |-> "none"]

\* child processes of an agent: the pid behind the handle in the processes
\* map (0: no handle), the pids alive, the pids this program has killed, and
\* the number spawned so far
NoProcs == [handle |-> 0, live |-> {}, killed |-> {}, spawned |-> 0]

IdleDeploy ==
  [pc |-> "idle", agent |-> "none", target |-> "none", child |-> 0,
   exited |-> FALSE, ret |-> "void"]

IdleRestart ==
  [pc |-> "idle", agent |-> "none", stopRet |-> "void", stopStatus |-> "none",
   stoppedAt |-> -1, wakeAt |-> -1, startedAt |-> -1, ret |-> "void",
   status |-> "none"]

DeployVarsInit ==
  /\ procs = [a \in AgentIds |-> NoProcs]
  /\ deploying = IdleDeploy
  /\ restarting = IdleRestart

WorkflowVarsInit ==
  /\ workflowRisk = [a \in AgentIds |-> "none"]
  /\ workflowLog = [a \in AgentIds |-> {}]

\* a number the code leaves undefined, and one it computes
undefined == [defined |-> FALSE, value |-> 0]

Number(v) == [defined |-> TRUE, value |-> v]

\* HostConfig without the keys of resource_limits
NoLimits ==
  [resource_limits |-> FALSE, memory_limit |-> <<>>, cpu_limit |-> <<>>,
   Memory |-> undefined, NanoCpus |-> undefined]

\* no deployDocker call has a HostConfig in hand
NoHostConfig == [built |-> FALSE, limits |-> NoLimits]

NoPush ==
  [pushed |-> FALSE, healthHistory |-> <<>>, healthStatus |-> "none",
   after |-> <<>>]

LimitVarsInit == hostConfig = NoHostConfig /\ historyPush = NoPush

\* the tasks that call createAgent at the same time
Callers == {"c1", "c2"}

IdleCreate ==
  [pc |-> "idle", name |-> "none", used |-> FALSE, failedAt |-> "none",
   ret |-> "none"]

AdminCommands == {"stop_agent", "start_agent", "delete_agent"}

IdleTransition ==
  [pc |-> "idle", agent |-> "none", fromState |-> NoAgent,
   toState |-> NoAgent, overwrote |-> NoAgent, ret |-> "void"]

IdleTick ==
  [pc |-> "idle", timer |-> 0, session |-> 0, strategy |-> <<>>,
   stopped |-> FALSE]

\* no interval timer is live, no session holds one, nothing is in flight
NoMonitoring ==
  [timers |-> {}, session |-> 0, created |-> 0,
   starts |-> [c \in Callers |-> [pc |-> "idle", strategy |-> <<>>]],
   tick |-> IdleTick]

TaskVarsInit ==
  /\ names = [a \in AgentIds |-> "none"]
  /\ creating = [c \in Callers |-> IdleCreate]
  /\ transiting = [h \in AdminCommands |-> IdleTransition]
  /\ monitoring = NoMonitoring

\* the ids createAgent hands out; any other id names no agent
KnownIds == {"a1"}

\* bound on the strategies dispatched in one behaviour
MaxDispatch == 4

RECURSIVE SumOver(_, _)
SumOver(f, keys) ==
  IF keys = {} THEN 0
  ELSE LET k == CHOOSE x \in keys : TRUE IN f[k] + SumOver(f, keys \ {k})

Dispatches ==
  SumOver([a \in AgentIds |-> SumOver(dispatchTotal[a], FailureTypes)], AgentIds)

Dispatched(calls) == \E i \in DOMAIN calls : calls[i].fn = "dispatch"

DispatchesIn(calls, failureType) ==
  Cardinality({i \in DOMAIN calls :
                 calls[i] = [fn |-> "dispatch",
                             arg |-> getRecoveryStrategy(failureType)]})

RecoveredIn(calls, failureType) ==
  \E i \in DOMAIN calls :
    calls[i] = [fn |-> "sendSuccess", arg |-> "Recovery successful for " \o failureType]

\* the history of the recover calls a handler made for agentId
RecordDispatches(agentId, calls) ==
  /\ dispatchTotal' =
       [dispatchTotal EXCEPT ![agentId] =
          [f \in FailureTypes |-> dispatchTotal[agentId][f] + DispatchesIn(calls, f)]]
  /\ dispatchRun' =
       [dispatchRun EXCEPT ![agentId] =
          [f \in FailureTypes |->
             IF RecoveredIn(calls, f) THEN 0
             ELSE dispatchRun[agentId][f] + DispatchesIn(calls, f)]]

\* MemoryEngine.createAgent: a new row in state REQUESTED
CreateAgent(agentId) ==
  /\ agents[agentId] = NoAgent
  /\ SetWorld([World EXCEPT !.agents[agentId] = "REQUESTED"])
  /\ Observe("createAgent", agentId, "none", "void", World)
  /\ UNCHANGED <<dispatchTotal, dispatchRun, workflow, approvalVars, deployVars, limitVars, taskVars, workflowVars>>

TransitionState(agentId, toState) ==
  LET r == transitionState(World, agentId, toState) IN
  /\ SetWorld(r.w)
  /\ Observe("transitionState", agentId, toState, Bool(r.ret), r.w)
  /\ UNCHANGED <<dispatchTotal, dispatchRun, workflow, approvalVars, deployVars, limitVars, taskVars, workflowVars>>

TransitionToFailed(agentId) ==
  LET w == transitionToFailed(World, agentId, "Workflow error") IN
  /\ SetWorld(w)
  /\ Observe("transitionToFailed", agentId, "none", "void", w)
  /\ UNCHANGED <<dispatchTotal, dispatchRun, workflow, approvalVars, deployVars, limitVars, taskVars, workflowVars>>

HandleStopAgent(agentId, env) ==
  LET w == handleStopAgent(World, agentId, env) IN
  /\ SetWorld(w)
  /\ Observe("handleStopAgent", agentId, "none", "void", w)
  /\ UNCHANGED <<dispatchTotal, dispatchRun, workflow, approvalVars, deployVars, limitVars, taskVars, workflowVars>>

HandleStartAgent(agentId, env) ==
  LET w == handleStartAgent(World, agentId, env) IN
  /\ SetWorld(w)
  /\ Observe("handleStartAgent", agentId, "none", "void", w)
  /\ UNCHANGED <<dispatchTotal, dispatchRun, workflow, approvalVars, deployVars, limitVars, taskVars, workflowVars>>

HandleDeleteAgent(agentId, env) ==
  LET w == handleDeleteAgent(World, agentId, env) IN
  /\ SetWorld(w)
  /\ Observe("handleDeleteAgent", agentId, "none", "void", w)
  /\ UNCHANGED <<dispatchTotal, dispatchRun, workflow, approvalVars, deployVars, limitVars, taskVars, workflowVars>>

\* the container of a DOCKER deployment exits on its own
ContainerExit(agentId) ==
  /\ containers[agentId]
  /\ containers' = [containers EXCEPT ![agentId] = FALSE]
  /\ obs' = NoObs
  /\ UNCHANGED <<agents, plans, deployments, processes, sessions,
                 recoveryAttempts, dispatchTotal, dispatchRun, workflow,
                 approvalVars, deployVars, limitVars, taskVars, workflowVars>>

\* recover(agentId, failureType, error, context); hasErrors: the context
\* carries validationResult.errors
Recover(agentId, failureType, hasErrors, env) ==
  LET r == recover(World, agentId, failureType, hasErrors, env) IN
  /\ Dispatches < MaxDispatch \/ ~Dispatched(r.w.calls)
  /\ SetWorld(r.w)
  /\ Observe("recover", agentId, failureType, Bool(r.ret), r.w)
  /\ RecordDispatches(agentId, r.w.calls)
  /\ UNCHANGED <<workflow, approvalVars, deployVars, limitVars, taskVars, workflowVars>>

\* the inputs of recover that its strategy for failureType reads
ContextsOf(failureType) ==
  IF failureType = "validation_failure" THEN BOOLEAN ELSE {FALSE}

EnvsOf(failureType) ==
  IF failureType \in {"deployment_failure", "runtime_crash"}
    THEN OpEnvs ELSE {env \in OpEnvs : env.ok}

-----------------------------------------------------------------------------
(* ApprovalEngine, MemoryEngine's approvals table and the admin channel's  *)
(* approval responses, for one approval row                                *)

ApprovalStatus == {"PENDING", "APPROVED", "REJECTED", "TIMEOUT"}

NoApproval == "NONE"

\* waitForApproval polls every 5 seconds
pollIntervalMs == 5000

\* the clock advances in steps of half a poll interval, MaxTicks times
TimeStep == pollIntervalMs \div 2
MaxTicks == 5

\* the timeoutMs arguments of waitForApproval
Timeouts == {pollIntervalMs, pollIntervalMs + TimeStep, 2 * pollIntervalMs}

\* bound on the responses of the admin channel and of the engine's callers
MaxResponses == 3

NoWaiter ==
  [pc |-> "idle", startTime |-> 0, timeoutMs |-> 0, wakeAt |-> 0,
   ret |-> "none", returnedAt |-> -1]

ApprovalInit ==
  /\ approvalStatus = NoApproval
  /\ statusWrites = <<>>
  /\ respondedAt = -1
  /\ now = 0
  /\ waiter = NoWaiter

\* MemoryEngine.updateApprovalStatus: UPDATE approvals SET status = $1 WHERE id = $5
\* (no row has the id: no row is updated)
updateApprovalStatus(status) ==
  IF approvalStatus = NoApproval
    THEN UNCHANGED <<approvalStatus, statusWrites, respondedAt>>
    ELSE /\ approvalStatus' = status
         /\ statusWrites' = Append(statusWrites, status)
         /\ respondedAt' = IF respondedAt = -1 /\ status \in {"APPROVED", "REJECTED"}
                             THEN now ELSE respondedAt

\* a lookup that finds a row for every id
approvalFoundForAnyId(rowStatus) == TRUE

\* MemoryEngine.getApproval: result.rows[0] || null
approvalFound(rowStatus) == rowStatus # NoApproval

\* what waitForApproval's caller gets when it throws "Approval ... not found"
NotFound == "NotFound"

Responses ==
  Cardinality({i \in DOMAIN statusWrites : statusWrites[i] \in {"APPROVED", "REJECTED"}})

\* requestApproval up to the sent notification: createApproval inserts the row
\* as PENDING, sendApprovalRequest returns the message id or undefined
RequestApproval(messageSent) ==
  /\ waiter.pc = "idle"
  /\ approvalStatus = NoApproval
  /\ approvalStatus' = "PENDING"
  /\ waiter' = [waiter EXCEPT !.pc = IF messageSent THEN "sent" ELSE "requested"]
  /\ UNCHANGED <<statusWrites, respondedAt, now, coreVars, deployVars, limitVars, taskVars, workflowVars>>

\* requestApproval after the notification: the row is written again as PENDING
\* to store the message id
RequestApprovalStoreMessageId ==
  /\ waiter.pc = "sent"
  /\ updateApprovalStatus("PENDING")
  /\ waiter' = [waiter EXCEPT !.pc = "requested"]
  /\ UNCHANGED <<now, coreVars, deployVars, limitVars, taskVars, workflowVars>>

\* waitForApproval up to its loop: startTime = Date.now()
WaitForApproval(timeoutMs) ==
  /\ waiter.pc = "requested"
  /\ waiter' = [waiter EXCEPT !.pc = "poll", !.startTime = now,
                              !.timeoutMs = timeoutMs]
  /\ UNCHANGED <<approvalStatus, statusWrites, respondedAt, now, coreVars, deployVars, limitVars, taskVars, workflowVars>>

\* one test of the loop condition, with the iteration or the timeout path
\* that follows it
WaitForApprovalLoop ==
  /\ waiter.pc = "poll" \/ (waiter.pc = "sleep" /\ now >= waiter.wakeAt)
  /\ IF now - waiter.startTime < waiter.timeoutMs
       THEN /\ waiter' = IF ~approvalFound(approvalStatus)
                           THEN [waiter EXCEPT !.pc = "done", !.ret = NotFound,
                                               !.returnedAt = now]
                           ELSE IF approvalStatus # "PENDING"
                           THEN [waiter EXCEPT !.pc = "done", !.ret = approvalStatus,
                                               !.returnedAt = now]
                           ELSE [waiter EXCEPT !.pc = "sleep",
                                               !.wakeAt = now + pollIntervalMs]
            /\ UNCHANGED <<approvalStatus, statusWrites, respondedAt>>
       ELSE /\ updateApprovalStatus("TIMEOUT")
            /\ waiter' = [waiter EXCEPT !.pc = "done", !.ret = "TIMEOUT",
                                        !.returnedAt = now]
  /\ UNCHANGED <<now, coreVars, deployVars, limitVars, taskVars, workflowVars>>

\* time passes; a due timer fires before the clock moves on
Tick ==
  /\ now < MaxTicks * TimeStep
  /\ waiter.pc \notin {"sent", "poll"}
  /\ waiter.pc = "sleep" => now < waiter.wakeAt
  /\ now' = now + TimeStep
  /\ UNCHANGED <<approvalStatus, statusWrites, respondedAt, waiter, coreVars, deployVars, limitVars, taskVars, workflowVars>>

\* /approve <id>: answers "already ..." unless the row is PENDING
HandleApprove ==
  /\ approvalStatus # NoApproval
  /\ Responses < MaxResponses
  /\ IF approvalStatus = "PENDING"
       THEN updateApprovalStatus("APPROVED")
       ELSE UNCHANGED <<approvalStatus, statusWrites, respondedAt>>
  /\ UNCHANGED <<now, waiter, coreVars, deployVars, limitVars, taskVars, workflowVars>>

\* /reject <id>
HandleReject ==
  /\ approvalStatus # NoApproval
  /\ Responses < MaxResponses
  /\ IF approvalStatus = "PENDING"
       THEN updateApprovalStatus("REJECTED")
       ELSE UNCHANGED <<approvalStatus, statusWrites, respondedAt>>
  /\ UNCHANGED <<now, waiter, coreVars, deployVars, limitVars, taskVars, workflowVars>>

\* an inline button of the approval message: "approve:<id>" or "reject:<id>"
HandleCallbackQuery(action) ==
  /\ approvalStatus # NoApproval
  /\ Responses < MaxResponses
  /\ updateApprovalStatus(IF action = "approve" THEN "APPROVED" ELSE "REJECTED")
  /\ UNCHANGED <<now, waiter, coreVars, deployVars, limitVars, taskVars, workflowVars>>

ProcessApproval(status) ==
  /\ approvalStatus # NoApproval
  /\ Responses < MaxResponses
  /\ updateApprovalStatus(status)
  /\ UNCHANGED <<now, waiter, coreVars, deployVars, limitVars, taskVars, workflowVars>>

CancelApproval ==
  /\ approvalStatus # NoApproval
  /\ Responses < MaxResponses
  /\ updateApprovalStatus("REJECTED")
  /\ UNCHANGED <<now, waiter, coreVars, deployVars, limitVars, taskVars, workflowVars>>

\* waitForApproval up to its loop, called with an id that no row has
WaitForApprovalUnknownId(timeoutMs) ==
  /\ waiter.pc = "idle"
  /\ approvalStatus = NoApproval
  /\ waiter' = [waiter EXCEPT !.pc = "poll", !.startTime = now,
                              !.timeoutMs = timeoutMs]
  /\ UNCHANGED <<approvalStatus, statusWrites, respondedAt, now, coreVars, deployVars, limitVars, taskVars, workflowVars>>

\* the caller has the result or the error, and may call again
WaitForApprovalReturn ==
  /\ waiter.pc = "done"
  /\ approvalStatus = NoApproval
  /\ waiter' = NoWaiter
  /\ UNCHANGED <<approvalStatus, statusWrites, respondedAt, now, coreVars, deployVars, limitVars, taskVars, workflowVars>>

\* the timeoutMs arguments of a call with an unknown id
UnknownIdTimeouts == Timeouts \cup {0, 1}

ApprovalNext ==
  \/ \E messageSent \in BOOLEAN : RequestApproval(messageSent)
  \/ RequestApprovalStoreMessageId
  \/ \E timeoutMs \in Timeouts : WaitForApproval(timeoutMs)
  \/ WaitForApprovalLoop
  \/ Tick
  \/ HandleApprove
  \/ HandleReject
  \/ \E action \in {"approve", "reject"} : HandleCallbackQuery(action)
  \/ \E status \in {"APPROVED", "REJECTED"} : ProcessApproval(status)
  \/ CancelApproval

Init ==
  /\ CoreInit
  /\ ApprovalInit
  /\ DeployVarsInit
  /\ WorkflowVarsInit
  /\ LimitVarsInit
  /\ TaskVarsInit

SpecApproval == Init /\ [][ApprovalNext]_vars

UnknownIdNext ==
  \/ \E timeoutMs \in UnknownIdTimeouts : WaitForApprovalUnknownId(timeoutMs)
  \/ WaitForApprovalLoop
  \/ WaitForApprovalReturn
  \/ Tick

SpecUnknownId == Init /\ [][UnknownIdNext]_vars

-----------------------------------------------------------------------------
(* StateManager called directly                                            *)

Next ==
  \/ \E a \in KnownIds : CreateAgent(a)
  \/ \E a \in AgentIds, s \in AgentState : TransitionState(a, s)
  \/ \E a \in AgentIds : TransitionToFailed(a)

Spec == Init /\ [][Next]_vars

\* The surroundings of RecoveryEngine: the workflow and the admin move the
\* agent along the transition graph, save its plan and deploy it
AgentMoves(agentId, toState) ==
  /\ SetWorld(transitionState(World, agentId, toState).w)
  /\ obs' = NoObs
  /\ UNCHANGED <<dispatchTotal, dispatchRun, workflow, approvalVars, deployVars, limitVars, taskVars, workflowVars>>

AgentDeployed(agentId, target, env) ==
  /\ agents[agentId] # NoAgent
  /\ SetWorld(deployAgent(World, agentId, target, env).w)
  /\ obs' = NoObs
  /\ UNCHANGED <<dispatchTotal, dispatchRun, workflow, approvalVars, deployVars, limitVars, taskVars, workflowVars>>

\* RecoveryEngine.recover called on agents that the workflow moves and deploys
RecoveryNext ==
  \/ \E a \in KnownIds : CreateAgent(a)
  \/ \E a \in KnownIds, s \in AgentState : AgentMoves(a, s)
  \/ \E a \in KnownIds, env \in OpEnvs : AgentDeployed(a, "DOCKER", env)
  \/ \E a \in KnownIds, f \in FailureTypes :
       \E h \in ContextsOf(f), env \in EnvsOf(f) : Recover(a, f, h, env)

SpecRecovery == Init /\ [][RecoveryNext]_vars

-----------------------------------------------------------------------------
(* MonitorEngine on agents deployed to DOCKER                              *)

\* bound on the health checks recorded in one session
MaxChecks == 6

StartMonitoring(agentId, strategy, env) ==
  LET w == startMonitoring(World, agentId, strategy, env) IN
  /\ agents[agentId] # NoAgent
  /\ SetWorld(w)
  /\ Observe("startMonitoring", agentId, "none", "void", w)
  /\ UNCHANGED <<dispatchTotal, dispatchRun, workflow, approvalVars, deployVars, limitVars, taskVars, workflowVars>>

StopMonitoring(agentId) ==
  LET w == stopMonitoring(World, agentId) IN
  /\ sessions[agentId].live
  /\ SetWorld(w)
  /\ Observe("stopMonitoring", agentId, "none", "void", w)
  /\ UNCHANGED <<dispatchTotal, dispatchRun, workflow, approvalVars, deployVars, limitVars, taskVars, workflowVars>>

\* what the tick read: isAgentRunning's answer and getRecentErrors' length
CheckInputs(isRunning, errorCount) ==
  "running=" \o Bool(isRunning) \o " errors=" \o ToString(errorCount)

\* the session's interval timer fires
HealthCheckTick(agentId, env) ==
  LET w == performHealthCheck(World, agentId, env) IN
  /\ sessions[agentId].live
  /\ Len(sessions[agentId].healthHistory) < MaxChecks
  /\ SetWorld(w)
  /\ Observe("performHealthCheck", agentId,
             CheckInputs(isAgentRunning(World, agentId, env), env.errorCount),
             "void", w)
  /\ UNCHANGED <<dispatchTotal, dispatchRun, workflow, approvalVars, deployVars, limitVars, taskVars, workflowVars>>

MonitorNext ==
  \/ \E a \in KnownIds : CreateAgent(a)
  \/ \E a \in KnownIds, env \in OpEnvs : AgentDeployed(a, "DOCKER", env)
  \/ \E a \in KnownIds, strategy \in AlertStrategies, env \in Envs :
       StartMonitoring(a, strategy, env)
  \/ \E a \in KnownIds : StopMonitoring(a)
  \/ \E a \in KnownIds, env \in Envs : HealthCheckTick(a, env)
  \/ \E a \in KnownIds : ContainerExit(a)

SpecMonitor == Init /\ [][MonitorNext]_vars

-----------------------------------------------------------------------------
(* The orchestrator: createAgent with its workflow, and the admin commands *)

\* SABAOrchestrator.createAgent: the row, and the workflow in the background
OrchestratorCreateAgent(agentId) ==
  LET w == sendStatusUpdate([World EXCEPT !.agents[agentId] = "REQUESTED"],
                            "Agent creation started") IN
  /\ agents[agentId] = NoAgent
  /\ SetWorld(w)
  /\ workflow' = [workflow EXCEPT ![agentId] = "initial"]
  /\ Observe("createAgent", agentId, "none", "void", w)
  /\ UNCHANGED <<dispatchTotal, dispatchRun, approvalVars, deployVars, limitVars, taskVars, workflowVars>>

\* the workflow of agentId runs the stage it is at
\* the calls of a workflow that the gates are about
Gated(calls) ==
  {calls[i] : i \in {j \in DOMAIN calls :
                       calls[j].fn \in {"waitForApproval", "generateAgent",
                                         "validateAgent", "deployAgent",
                                         "startMonitoring"}
                       \/ calls[j] = [fn |-> "updateAgentState",
                                       arg |-> "ACTIVE"]}}

WorkflowStage(agentId, riskLevel, r) ==
  /\ SetWorld(r.w)
  /\ workflow' = [workflow EXCEPT ![agentId] = r.next]
  /\ workflowRisk' = [workflowRisk EXCEPT ![agentId] = riskLevel]
  /\ workflowLog' = [workflowLog EXCEPT ![agentId] = @ \cup Gated(r.w.calls)]
  /\ Observe("workflow", agentId, workflow[agentId], "void", r.w)
  /\ RecordDispatches(agentId, r.w.calls)
  /\ UNCHANGED <<approvalVars, deployVars, limitVars, taskVars>>

StageInitialPlan(agentId, riskLevel, status) ==
  /\ workflow[agentId] = "initial"
  /\ WorkflowStage(agentId, riskLevel,
                   stageInitialPlan(World, agentId, riskLevel, status))

StageDetailedPlan(agentId, conditions) ==
  /\ workflow[agentId] = "detailed"
  /\ WorkflowStage(agentId, workflowRisk[agentId],
                   stageDetailedPlan(World, agentId, conditions))

StageApproval(agentId, riskLevel, status) ==
  /\ workflow[agentId] = "approval"
  /\ WorkflowStage(agentId, riskLevel,
                   stageApproval(World, agentId, riskLevel, status))

StageGenerate(agentId) ==
  /\ workflow[agentId] = "generate"
  /\ WorkflowStage(agentId, workflowRisk[agentId],
                   stageGenerate(World, agentId))

StageValidate(agentId, passed, env) ==
  /\ workflow[agentId] = "validate"
  /\ WorkflowStage(agentId, workflowRisk[agentId],
                   stageValidate(World, agentId, passed, env))

StageDeploy(agentId, status, target, env) ==
  /\ workflow[agentId] = "deploy"
  /\ WorkflowStage(agentId, workflowRisk[agentId],
                   stageDeploy(World, agentId, workflowRisk[agentId], status,
                               target, env))

StageMonitor(agentId, env) ==
  /\ workflow[agentId] = "monitor"
  /\ WorkflowStage(agentId, workflowRisk[agentId],
                   stageMonitor(World, agentId, env))

\* the planning, security, generation or validation call of the stage throws
WorkflowError(agentId, env) ==
  /\ workflow[agentId] \in WorkflowStages \ {"deploy", "monitor"}
  /\ WorkflowStage(agentId, workflowRisk[agentId],
       [next |-> "done",
        w |-> workflowError(World, agentId, workflow[agentId], env)])

\* the plans the planning engine writes: their alert conditions
PlanConditions ==
  {c \in AlertStrategies : Len(c) <= 1}

OrchNext ==
  \/ \E a \in KnownIds : OrchestratorCreateAgent(a)
  \/ \E a \in KnownIds, r \in RiskLevel, s \in Resolutions :
       StageInitialPlan(a, r, s)
  \/ \E a \in KnownIds, c \in PlanConditions : StageDetailedPlan(a, c)
  \/ \E a \in KnownIds, r \in RiskLevel, s \in Resolutions :
       StageApproval(a, r, s)
  \/ \E a \in KnownIds : StageGenerate(a)
  \/ \E a \in KnownIds, ok \in BOOLEAN, env \in {e \in OpEnvs : e.ok} :
       StageValidate(a, ok, env)
  \/ \E a \in KnownIds, s \in Resolutions, t \in DeploymentTarget,
        env \in OpEnvs :
       StageDeploy(a, s, t, env)
  \/ \E a \in KnownIds, env \in Envs : StageMonitor(a, env)
  \/ \E a \in KnownIds, env \in {e \in OpEnvs : e.ok} : WorkflowError(a, env)
  \/ \E a \in KnownIds, env \in OpEnvs : HandleStopAgent(a, env)
  \/ \E a \in KnownIds, env \in Envs : HandleStartAgent(a, env)
  \/ \E a \in KnownIds, env \in OpEnvs : HandleDeleteAgent(a, env)

SpecOrch == Init /\ [][OrchNext]_vars

\* the step the workflow task of agentId takes next: the event loop resumes
\* a task whose awaited call has answered
WorkflowStep(agentId) ==
  \/ \E r \in RiskLevel, s \in Resolutions : StageInitialPlan(agentId, r, s)
  \/ \E c \in PlanConditions : StageDetailedPlan(agentId, c)
  \/ \E r \in RiskLevel, s \in Resolutions : StageApproval(agentId, r, s)
  \/ StageGenerate(agentId)
  \/ \E ok \in BOOLEAN, env \in {e \in OpEnvs : e.ok} :
       StageValidate(agentId, ok, env)
  \/ \E s \in Resolutions, t \in DeploymentTarget, env \in OpEnvs :
       StageDeploy(agentId, s, t, env)
  \/ \E env \in Envs : StageMonitor(agentId, env)
  \/ \E env \in {e \in OpEnvs : e.ok} : WorkflowError(agentId, env)

\* every workflow task runs on; the admin may send commands or not
SpecOrchFair ==
  Init /\ [][OrchNext]_vars /\ \A a \in KnownIds : WF_vars(WorkflowStep(a))

-----------------------------------------------------------------------------
(* DeploymentEngine called directly, its calls interleaved at their awaits  *)

MaxSpawns == 3

MaxRestarts == 2

RECURSIVE Account(_, _, _)
\* the child processes after the calls of one operation: spawn makes a new
\* child and puts its handle in the map, kill signals the child behind the
\* handle, which terminates, and deletes the handle
Account(p, calls, agentId) ==
  IF calls = <<>> THEN p
  ELSE LET c == Head(calls)
           q == IF c = [fn |-> "spawn", arg |-> agentId]
                  THEN [p EXCEPT !.spawned = @ + 1,
                                 !.handle = p.spawned + 1,
                                 !.live = @ \cup {p.spawned + 1}]
                ELSE IF c = [fn |-> "kill", arg |-> agentId]
                  THEN [p EXCEPT !.live = @ \ {p.handle},
                                 !.killed = IF p.handle \in p.live
                                              THEN @ \cup {p.handle} ELSE @,
                                 !.handle = 0]
                ELSE p
       IN Account(q, Tail(calls), agentId)

Spawns(agentId, w) ==
  procs' = [procs EXCEPT ![agentId] = Account(@, w.calls, agentId)]

\* an agent the workflow has brought to its deployment stage
DeployInit ==
  /\ agents = [a \in AgentIds |-> IF a \in KnownIds THEN "DEPLOYING" ELSE NoAgent]
  /\ plans = [a \in AgentIds |->
                IF a \in KnownIds
                  THEN [exists |-> TRUE, alert_conditions |-> <<>>] ELSE NoPlan]
  /\ deployments = [a \in AgentIds |-> NoDeployment]
  /\ processes = [a \in AgentIds |-> FALSE]
  /\ containers = [a \in AgentIds |-> FALSE]
  /\ sessions = [a \in AgentIds |-> NoSession]
  /\ recoveryAttempts = [a \in AgentIds |-> [f \in FailureTypes |-> 0]]
  /\ obs = NoObs
  /\ dispatchTotal = [a \in AgentIds |-> [f \in FailureTypes |-> 0]]
  /\ dispatchRun = [a \in AgentIds |-> [f \in FailureTypes |-> 0]]
  /\ workflow = [a \in AgentIds |-> "none"]
  /\ ApprovalInit
  /\ DeployVarsInit
  /\ WorkflowVarsInit
  /\ LimitVarsInit
  /\ TaskVarsInit

\* deployAgent up to the first await that lets other calls run: the sleep
\* of deployLocal; the other targets return without one.  Every call passes
\* the deployment_strategy of the agent's plan, so the target does not change
DeployAgentBegin(agentId, target, env) ==
  /\ deploying.pc \in {"idle", "done"}
  /\ deploying.target \in {"none", target}
  /\ procs[agentId].spawned < MaxSpawns
  /\ IF target = "LOCAL"
       THEN LET s == deployLocalSpawn(World, agentId, env) IN
            /\ SetWorld(s.w)
            /\ Spawns(agentId, s.w)
            /\ deploying' =
                 IF s.spawned
                   THEN [pc |-> "grace", agent |-> agentId, target |-> target,
                         child |-> procs[agentId].spawned + 1,
                         exited |-> FALSE, ret |-> "void"]
                   ELSE [pc |-> "done", agent |-> agentId, target |-> target,
                         child |-> 0, exited |-> FALSE, ret |-> "false"]
       ELSE LET r == deployAgent(World, agentId, target, env) IN
            /\ SetWorld(r.w)
            /\ UNCHANGED procs
            /\ deploying' = [pc |-> "done", agent |-> agentId, target |-> target,
                             child |-> 0, exited |-> FALSE,
                             ret |-> Bool(r.success)]
  /\ UNCHANGED <<obs, dispatchTotal, dispatchRun, workflow, approvalVars,
                 restarting, workflowVars, limitVars, taskVars>>

\* deployLocal after its sleep, and the rest of deployAgent
DeployAgentEnd ==
  /\ deploying.pc = "grace"
  /\ LET agentId == deploying.agent
         killed == deploying.child \in procs[agentId].killed
         r == deployAgentResult([success |-> deployLocalResult(killed),
                                 w |-> World], agentId, "LOCAL")
     IN /\ SetWorld(r.w)
        /\ deploying' = [deploying EXCEPT
                           !.pc = "done",
                           !.exited = deploying.child \notin procs[agentId].live,
                           !.ret = Bool(r.success)]
  /\ UNCHANGED <<obs, dispatchTotal, dispatchRun, workflow, approvalVars,
                 procs, restarting, workflowVars, limitVars, taskVars>>

StopAgent(agentId, env) ==
  LET r == stopAgent(World, agentId, env) IN
  /\ SetWorld(r.w)
  /\ Spawns(agentId, r.w)
  /\ UNCHANGED <<obs, dispatchTotal, dispatchRun, workflow, approvalVars,
                 deploying, restarting, workflowVars, limitVars, taskVars>>

\* what startAgent's deployLocal call returned: "none" if it was not called
redeployResult(w, agentId, env) ==
  IF /\ w.deployments[agentId].status # "none"
     /\ w.deployments[agentId].target = "LOCAL"
     /\ w.agents[agentId] # NoAgent
     /\ w.plans[agentId].exists
    THEN Bool(deployLocal(w, agentId, env).success)
    ELSE "none"

\* startAgent; its caller sees the result, and the status of the record
StartAgent(agentId, env) ==
  LET r == startAgent(World, agentId, env) IN
  /\ procs[agentId].spawned < MaxSpawns
  /\ SetWorld(r.w)
  /\ Spawns(agentId, r.w)
  /\ obs' = [NoObs EXCEPT !.op = "startAgent", !.agent = agentId,
                          !.arg = redeployResult(World, agentId, env),
                          !.ret = Bool(r.ret),
                          !.calls = <<[fn |-> "deployment.status",
                                       arg |-> r.w.deployments[agentId].status]>>]
  /\ UNCHANGED <<dispatchTotal, dispatchRun, workflow, approvalVars,
                 deploying, restarting, workflowVars, limitVars, taskVars>>

\* restartAgent: await stopAgent(agentId), whose result is dropped
RestartAgentStop(agentId, env) ==
  LET r == stopAgent(World, agentId, env) IN
  /\ restarting.pc \in {"idle", "done"}
  /\ now < MaxRestarts * restartDelayMs
  /\ SetWorld(r.w)
  /\ Spawns(agentId, r.w)
  /\ restarting' = [IdleRestart EXCEPT
                      !.pc = "sleep", !.agent = agentId,
                      !.stopRet = Bool(r.ret),
                      !.stopStatus = r.w.deployments[agentId].status,
                      !.stoppedAt = now,
                      !.wakeAt = sleep(now, restartDelayMs)]
  /\ UNCHANGED <<obs, dispatchTotal, dispatchRun, workflow, approvalVars,
                 deploying, workflowVars, limitVars, taskVars>>

\* restartAgent: await sleep(2000)
RestartAgentSleep ==
  /\ restarting.pc = "sleep"
  /\ now' = restarting.wakeAt
  /\ restarting' = [restarting EXCEPT !.pc = "start"]
  /\ UNCHANGED <<coreVars, approvalStatus, statusWrites, respondedAt, waiter,
                 procs, deploying, workflowVars, limitVars, taskVars>>

\* restartAgent: return await startAgent(agentId)
RestartAgentStart(env) ==
  LET agentId == restarting.agent
      r == startAgent(World, agentId, env)
  IN /\ restarting.pc = "start"
     /\ procs[agentId].spawned < MaxSpawns
     /\ SetWorld(r.w)
     /\ Spawns(agentId, r.w)
     /\ restarting' = [restarting EXCEPT
                         !.pc = "done", !.startedAt = now,
                         !.ret = Bool(r.ret),
                         !.status = r.w.deployments[agentId].status]
     /\ UNCHANGED <<obs, dispatchTotal, dispatchRun, workflow, approvalVars,
                    deploying, workflowVars, limitVars, taskVars>>

\* a child process exits on its own
ProcessExit(agentId, pid) ==
  /\ pid \in procs[agentId].live
  /\ procs' = [procs EXCEPT ![agentId].live = @ \ {pid}]
  /\ UNCHANGED <<coreVars, approvalVars, deploying, restarting, workflowVars, limitVars, taskVars>>

DeployNext ==
  \/ \E a \in KnownIds, t \in DeploymentTarget, env \in OpEnvs :
       DeployAgentBegin(a, t, env)
  \/ DeployAgentEnd
  \/ \E a \in KnownIds, env \in OpEnvs : StopAgent(a, env)
  \/ \E a \in KnownIds, env \in OpEnvs : StartAgent(a, env)
  \/ \E a \in KnownIds, env \in OpEnvs : RestartAgentStop(a, env)
  \/ RestartAgentSleep
  \/ \E env \in OpEnvs : RestartAgentStart(env)
  \/ \E a \in KnownIds, pid \in 1..MaxSpawns : ProcessExit(a, pid)
  \/ \E a \in KnownIds : ContainerExit(a)

SpecDeploy == DeployInit /\ [][DeployNext]_vars

-----------------------------------------------------------------------------
(* ApprovalEngine's policy, called directly                                *)

MaxApprovals == 2

\* the risk level the caller holds for the agent (initialPlan.risk_level,
\* classifyRiskLevel(detailedPlan))
ClassifyRisk(agentId, riskLevel) ==
  /\ workflowRisk[agentId] # riskLevel
  /\ workflowRisk' = [workflowRisk EXCEPT ![agentId] = riskLevel]
  /\ obs' = NoObs
  /\ UNCHANGED <<agents, plans, deployments, processes, containers, sessions,
                 recoveryAttempts, dispatchTotal, dispatchRun, workflow,
                 approvalVars, deployVars, limitVars, taskVars, workflowLog>>

ShouldRequestApproval(agentId, approvalType) ==
  /\ workflowRisk[agentId] \in RiskLevel
  /\ obs' = [NoObs EXCEPT
               !.op = "shouldRequestApproval", !.agent = agentId,
               !.arg = approvalType,
               !.ret = Bool(shouldRequestApproval(workflowRisk[agentId],
                                                  approvalType))]
  /\ UNCHANGED <<agents, plans, deployments, processes, containers, sessions,
                 recoveryAttempts, dispatchTotal, dispatchRun, workflow,
                 approvalVars, deployVars, limitVars, taskVars, workflowVars>>

\* the four request...Approval methods; status: what waitForApproval returns
RequestTypedApproval(agentId, approvalType, status) ==
  LET r == requestTypedApproval(World, workflowRisk[agentId], approvalType,
                                status) IN
  /\ workflowRisk[agentId] \in RiskLevel
  /\ Cardinality(workflowLog[agentId]) < MaxApprovals
  /\ SetWorld(r.w)
  /\ workflowLog' = [workflowLog EXCEPT ![agentId] = @ \cup Gated(r.w.calls)]
  /\ Observe("requestApproval", agentId, approvalType, Bool(r.ret), r.w)
  /\ UNCHANGED <<dispatchTotal, dispatchRun, workflow, approvalVars,
                 deployVars, limitVars, taskVars, workflowRisk>>

PolicyNext ==
  \/ \E a \in KnownIds, r \in RiskLevel : ClassifyRisk(a, r)
  \/ \E a \in KnownIds, t \in ApprovalType : ShouldRequestApproval(a, t)
  \/ \E a \in KnownIds, s \in Resolutions,
        t \in ApprovalType \ {"MODIFICATION", "DELETION"} :
       RequestTypedApproval(a, t, s)

SpecPolicy == Init /\ [][PolicyNext]_vars

-----------------------------------------------------------------------------
(* RecoveryEngine.recover with a raising collaborator                      *)

RecoverUnderFault(agentId, failureType, hasErrors, env, fault) ==
  LET r == recoverUnderFault(World, agentId, failureType, hasErrors, env,
                             fault) IN
  /\ Dispatches < MaxDispatch \/ ~Dispatched(r.w.calls)
  /\ SetWorld(r.w)
  /\ Observe("recover", agentId, failureType, r.ret, r.w)
  /\ RecordDispatches(agentId, r.w.calls)
  /\ UNCHANGED <<workflow, approvalVars, deployVars, limitVars, taskVars, workflowVars>>

\* one failure type for each way a strategy meets the store: through
\* transitionState, after a deployment call, and through transitionToFailed
FaultedTypes == {"generation_failure", "deployment_failure", "unknown_failure"}

FaultNext ==
  \/ \E a \in KnownIds : CreateAgent(a)
  \/ \E a \in KnownIds, s \in AgentState : AgentMoves(a, s)
  \/ \E a \in KnownIds, env \in OpEnvs : AgentDeployed(a, "DOCKER", env)
  \/ \E a \in KnownIds, f \in FaultedTypes, fault \in Faults :
       \E h \in ContextsOf(f), env \in EnvsOf(f) :
         RecoverUnderFault(a, f, h, env, fault)

SpecFault == Init /\ [][FaultNext]_vars

-----------------------------------------------------------------------------
(* DeploymentEngine.deployDocker: the container's resource limits          *)
(* Strings are sequences of one-character strings; a number the code       *)
(* leaves undefined is a record with defined = FALSE.                      *)

Digits == <<"0", "1", "2", "3", "4", "5", "6", "7", "8", "9">>

IsDigit(c) == \E i \in DOMAIN Digits : Digits[i] = c

DigitValue(c) == (CHOOSE i \in DOMAIN Digits : Digits[i] = c) - 1

\* parseInt of a string of decimal digits
RECURSIVE parseInt(_)
parseInt(s) ==
  IF s = <<>> THEN 0
  ELSE parseInt(SubSeq(s, 1, Len(s) - 1)) * 10 + DigitValue(s[Len(s)])

\* String(n) of a natural number
RECURSIVE decimal(_)
decimal(n) ==
  IF n < 10 THEN <<Digits[n + 1]>>
  ELSE decimal(n \div 10) \o <<Digits[(n % 10) + 1]>>

toLowerCase(c) == IF c = "M" THEN "m" ELSE IF c = "G" THEN "g" ELSE c

\* the match of /^(\d+)([mg])$/i
memoryLimitMatches(limit) ==
  /\ Len(limit) >= 2
  /\ \A i \in 1..(Len(limit) - 1) : IsDigit(limit[i])
  /\ toLowerCase(limit[Len(limit)]) \in {"m", "g"}

\* a translation that takes the units as powers of ten
parseMemoryLimitDecimalUnits(limit) ==
  IF limit = <<>> \/ ~memoryLimitMatches(limit) THEN undefined
  ELSE LET value == parseInt(SubSeq(limit, 1, Len(limit) - 1))
           unit == toLowerCase(limit[Len(limit)])
       IN Number(IF unit = "m" THEN value * 1000 * 1000
                  ELSE value * 1000 * 1000 * 1000)

parseMemoryLimit(limit) ==
  IF limit = <<>> THEN undefined
  ELSE IF ~memoryLimitMatches(limit) THEN undefined
  ELSE LET value == parseInt(SubSeq(limit, 1, Len(limit) - 1))
           unit == toLowerCase(limit[Len(limit)])
       IN Number(IF unit = "m" THEN value * 1024 * 1024
                  ELSE value * 1024 * 1024 * 1024)

\* the longest prefix of s made of decimal digits
RECURSIVE digitPrefix(_)
digitPrefix(s) ==
  IF s = <<>> \/ ~IsDigit(s[1]) THEN <<>>
  ELSE <<s[1]>> \o digitPrefix(SubSeq(s, 2, Len(s)))

RECURSIVE Pow10(_)
Pow10(k) == IF k = 0 THEN 1 ELSE 10 * Pow10(k - 1)

nanoExponent == 9

\* parseFloat reads the longest prefix <digits>[.<digits>] that holds a
\* digit, and gives NaN when there is none; the value times 1e9 is the
\* digits read, as one number, scaled by the decimals still to come
parseCpuLimit(limit) ==
  IF limit = <<>> THEN undefined
  ELSE LET whole == digitPrefix(limit)
           rest == SubSeq(limit, Len(whole) + 1, Len(limit))
           fraction == IF rest # <<>> /\ rest[1] = "."
                         THEN digitPrefix(SubSeq(rest, 2, Len(rest)))
                         ELSE <<>>
       IN IF whole = <<>> /\ fraction = <<>> THEN undefined
          ELSE Number(parseInt(whole \o fraction)
                        * Pow10(nanoExponent - Len(fraction)))

\* the largest <n> of the memory limits "<n>m" drawn
MaxMemoryValue == 512

\* "<n>g" limits; their byte counts stay below 2^31
GigabyteValues == {0, 1}

MemoryLimits ==
  {decimal(n) \o <<u>> : n \in 0..MaxMemoryValue, u \in {"m", "M"}}
    \cup {decimal(n) \o <<u>> : n \in GigabyteValues, u \in {"g", "G"}}
    \cup {<<>>, <<"m">>, <<"5", "1", "2">>, <<"5", "1", "2", "k">>,
          <<"0", "6", "4", "m">>, <<"1", ".", "5", "g">>,
          <<"5", "1", "2", "m", "b">>}

CpuLimits ==
  {decimal(w) : w \in 0..2}
    \cup {decimal(w) \o <<".">> \o decimal(t) : w \in 0..1, t \in 0..9}
    \cup {<<>>, <<".", "5">>, <<"0", ".", "2", "5">>, <<"1", "c">>,
          <<"c", "p", "u">>, <<".">>}

\* the limits deployDocker spreads into HostConfig
hostConfigLimits(hasLimits, memory_limit, cpu_limit) ==
  IF hasLimits
    THEN [resource_limits |-> TRUE, memory_limit |-> memory_limit,
          cpu_limit |-> cpu_limit,
          Memory |-> parseMemoryLimit(memory_limit),
          NanoCpus |-> parseCpuLimit(cpu_limit)]
    ELSE NoLimits

\* deployDocker builds HostConfig for createContainer
DeployDockerHostConfig(hasLimits, memory_limit, cpu_limit) ==
  /\ ~hostConfig.built
  /\ hostConfig' =
       [built |-> TRUE,
        limits |-> hostConfigLimits(hasLimits, memory_limit, cpu_limit)]
  /\ UNCHANGED <<coreVars, approvalVars, deployVars, workflowVars, taskVars,
                 historyPush>>

\* deployDocker returns; its HostConfig is gone with it
DeployDockerReturn ==
  /\ hostConfig.built
  /\ hostConfig' = NoHostConfig
  /\ UNCHANGED <<coreVars, approvalVars, deployVars, workflowVars, taskVars,
                 historyPush>>

LimitsNext ==
  \/ \E memory_limit \in MemoryLimits, cpu_limit \in CpuLimits :
       DeployDockerHostConfig(TRUE, memory_limit, cpu_limit)
  \/ DeployDockerHostConfig(FALSE, <<>>, <<>>)
  \/ DeployDockerReturn

SpecLimits == Init /\ [][LimitsNext]_vars

-----------------------------------------------------------------------------
(* performHealthCheck's push to session.healthHistory, on histories up to  *)
(* the limit                                                               *)

HealthStatuses == <<"healthy", "degraded", "unhealthy">>

\* the lengths of the histories: empty, short, and at or just below the limit
HistoryLengths ==
  {0, 1, 2, 3, healthHistoryLimit - 2, healthHistoryLimit - 1,
   healthHistoryLimit}

\* a history of n results whose i-th result is fixed by its position
HistoryOf(n, stride, offset) ==
  [i \in 1..n |-> HealthStatuses[((i * stride + offset) % 3) + 1]]

\* the histories a session can hold: never longer than the limit
Histories ==
  {HistoryOf(n, stride, offset) :
     n \in HistoryLengths, stride \in 0..2, offset \in 0..2}

\* session.healthHistory.push(healthStatus), and the shift that follows it
PushHealthStatus(healthHistory, healthStatus) ==
  /\ ~historyPush.pushed
  /\ historyPush' =
       [pushed |-> TRUE, healthHistory |-> healthHistory,
        healthStatus |-> healthStatus,
        after |-> pushHealthStatus(healthHistory, healthStatus)]
  /\ UNCHANGED <<coreVars, approvalVars, deployVars, workflowVars, taskVars,
                 hostConfig>>

\* the tick goes on with the history it has
PushHealthStatusReturn ==
  /\ historyPush.pushed
  /\ historyPush' = NoPush
  /\ UNCHANGED <<coreVars, approvalVars, deployVars, workflowVars, taskVars,
                 hostConfig>>

HistoryNext ==
  \/ \E healthHistory \in Histories, i \in 1..3 :
       PushHealthStatus(healthHistory, HealthStatuses[i])
  \/ PushHealthStatusReturn

SpecHistory == Init /\ [][HistoryNext]_vars

-----------------------------------------------------------------------------
(* SABAOrchestrator.createAgent, its calls interleaved at their awaits     *)

AgentNames == {"tracker", "reporter"}

\* SELECT * FROM agents WHERE name = $1 finds a row
getAgentByName(table, name) == \E a \in AgentIds : table[a] = name

\* gen_random_uuid(): an id no row has
FreshIds(table) == {a \in AgentIds : table[a] = "none"}

\* an agents table without the UNIQUE constraint on name
insertAgentAnyName(table, name) ==
  [ok |-> TRUE, id |-> CHOOSE a \in FreshIds(table) : TRUE]

\* INSERT INTO agents (name, ...) RETURNING *: the UNIQUE constraint on name
\* rejects the row when a row has the name, and pool.query raises
insertAgent(table, name) ==
  IF getAgentByName(table, name)
    THEN [ok |-> FALSE, id |-> "none"]
    ELSE [ok |-> TRUE, id |-> CHOOSE a \in FreshIds(table) : TRUE]

\* createAgent up to its INSERT: the pre-check sends the error and throws
CreateAgentCheck(c, name) ==
  /\ creating[c].pc \in {"idle", "done"}
  /\ creating' =
       [creating EXCEPT ![c] =
          IF getAgentByName(names, name)
            THEN [pc |-> "done", name |-> name, used |-> TRUE,
                  failedAt |-> "check", ret |-> "error"]
            ELSE [pc |-> "insert", name |-> name, used |-> FALSE,
                  failedAt |-> "none", ret |-> "none"]]
  /\ obs' = IF getAgentByName(names, name)
              THEN [NoObs EXCEPT !.op = "createAgent", !.arg = name,
                                 !.ret = "error",
                                 !.calls = sendError(World, "already exists").calls]
              ELSE NoObs
  /\ UNCHANGED <<agents, plans, deployments, processes, containers, sessions,
                 recoveryAttempts, dispatchTotal, dispatchRun, workflow,
                 approvalVars, deployVars, workflowVars, limitVars, names,
                 transiting, monitoring>>

\* createAgent from its INSERT on: the row, the status update, the workflow
\* started in the background; a rejected INSERT is logged and rethrown
CreateAgentInsert(c) ==
  LET name == creating[c].name
      inserted == insertAgent(names, name)
      w == sendStatusUpdate([World EXCEPT !.agents[inserted.id] = "REQUESTED"],
                            "Agent creation started")
  IN
  /\ creating[c].pc = "insert"
  /\ FreshIds(names) # {}
  /\ IF inserted.ok
       THEN /\ SetWorld(w)
            /\ names' = [names EXCEPT ![inserted.id] = name]
            /\ workflow' = [workflow EXCEPT ![inserted.id] = "initial"]
            /\ creating' = [creating EXCEPT ![c].pc = "done",
                                            ![c].used = getAgentByName(names, name),
                                            ![c].ret = inserted.id]
            /\ Observe("createAgent", inserted.id, name, inserted.id, w)
       ELSE /\ UNCHANGED <<agents, plans, deployments, processes, containers,
                           sessions, recoveryAttempts, names, workflow>>
            /\ creating' = [creating EXCEPT ![c].pc = "done",
                                            ![c].used = getAgentByName(names, name),
                                            ![c].failedAt = "insert",
                                            ![c].ret = "error"]
            /\ obs' = [NoObs EXCEPT !.op = "createAgent", !.arg = name,
                                    !.ret = "error"]
  /\ UNCHANGED <<dispatchTotal, dispatchRun, approvalVars, deployVars,
                 workflowVars, limitVars, transiting, monitoring>>

\* the agent fails or is deleted: its row stays, with its name
CreateNext ==
  \/ \E c \in Callers, name \in AgentNames : CreateAgentCheck(c, name)
  \/ \E c \in Callers : CreateAgentInsert(c)
  \/ \E a \in AgentIds, s \in {"FAILED", "DELETED"} : AgentMoves(a, s)

SpecCreate == Init /\ [][CreateNext]_vars

-----------------------------------------------------------------------------
(* The admin handlers as concurrent tasks: each runs up to the read of     *)
(* its transitionState call, and from the write of that call to its end    *)

\* the state the handler of the command asks the StateManager for
CommandState(command) ==
  CASE command = "stop_agent"  -> "PAUSED"
    [] command = "start_agent" -> "ACTIVE"
    [] OTHER                   -> "DELETED"

\* the handler up to its transitionState call: [proceeds, w]
handlerUpToTransition(w, command, agentId, env) ==
  CASE command = "stop_agent" ->
         LET stopped == stopAgent(w, agentId, env) IN
         IF stopped.ret
           THEN [proceeds |-> TRUE, w |-> stopMonitoring(stopped.w, agentId)]
           ELSE [proceeds |-> FALSE,
                 w |-> sendError(stopped.w, "Failed to stop agent")]
    [] command = "start_agent" ->
         LET started == startAgent(w, agentId, env) IN
         IF started.ret
           THEN [proceeds |-> TRUE, w |-> started.w]
           ELSE [proceeds |-> FALSE,
                 w |-> sendError(started.w, "Failed to start agent")]
    [] OTHER ->
         [proceeds |-> TRUE,
          w |-> stopMonitoring(stopAgent(w, agentId, env).w, agentId)]

\* the handler after its transitionState call returned
handlerAfterTransition(w, command, agentId, env) ==
  CASE command = "stop_agent" -> sendSuccess(w, "Agent stopped")
    [] command = "start_agent" ->
         sendSuccess(IF w.plans[agentId].exists
                       THEN startMonitoring(w, agentId,
                              w.plans[agentId].alert_conditions, env)
                       ELSE w,
                     "Agent started")
    [] OTHER -> sendSuccess(w, "Agent deleted")

\* transitionState from its updateAgentState on: UPDATE agents SET status
\* WHERE id, whatever the row holds by then
transitionWrite(w, agentId, fromState, toState) ==
  [ret |-> TRUE,
   w |-> Called([w EXCEPT !.agents[agentId] = toState],
                "updateAgentState", toState)]

\* the handler of the command starts and runs up to the getAgent of its
\* transitionState call; an invalid transition returns false at once
HandlerBegin(command, agentId, env) ==
  LET p == handlerUpToTransition(World, command, agentId, env)
      toState == CommandState(command)
      fromState == p.w.agents[agentId]
      valid == isValidTransition(fromState, toState)
      w == IF ~p.proceeds \/ valid THEN p.w
           ELSE handlerAfterTransition(p.w, command, agentId, env)
  IN
  /\ transiting[command].pc \in {"idle", "done"}
  /\ agents[agentId] # NoAgent
  /\ SetWorld(w)
  /\ transiting' =
       [transiting EXCEPT ![command] =
          [pc |-> IF p.proceeds /\ valid THEN "write" ELSE "done",
           agent |-> agentId,
           fromState |-> IF p.proceeds THEN fromState ELSE NoAgent,
           toState |-> IF p.proceeds THEN toState ELSE NoAgent,
           overwrote |-> NoAgent,
           ret |-> IF p.proceeds THEN Bool(valid) ELSE "void"]]
  /\ obs' = NoObs
  /\ UNCHANGED <<dispatchTotal, dispatchRun, workflow, approvalVars,
                 deployVars, workflowVars, limitVars, names, creating,
                 monitoring>>

\* the write of the handler's transitionState call, and the rest of the
\* handler
HandlerWrite(command, env) ==
  LET t == transiting[command]
      r == transitionWrite(World, t.agent, t.fromState, t.toState)
      w == handlerAfterTransition(r.w, command, t.agent, env)
  IN
  /\ t.pc = "write"
  /\ SetWorld(w)
  /\ transiting' = [transiting EXCEPT ![command].pc = "done",
                                      ![command].overwrote = agents[t.agent],
                                      ![command].ret = Bool(r.ret)]
  /\ obs' = NoObs
  /\ UNCHANGED <<dispatchTotal, dispatchRun, workflow, approvalVars,
                 deployVars, workflowVars, limitVars, names, creating,
                 monitoring>>

\* an agent that the workflow has deployed and now moves to ACTIVE, or to
\* FAILED, with the admin's commands arriving at any time
RaceNext ==
  \/ \E a \in KnownIds, s \in {"ACTIVE", "FAILED"} : AgentMoves(a, s)
  \/ \E a \in KnownIds, env \in OpEnvs : AgentDeployed(a, "DOCKER", env)
  \/ \E h \in AdminCommands, a \in KnownIds, env \in OpEnvs :
       HandlerBegin(h, a, env)
  \/ \E h \in AdminCommands, env \in OpEnvs : HandlerWrite(h, env)

SpecRace == DeployInit /\ [][RaceNext]_vars

-----------------------------------------------------------------------------
(* MonitorEngine: startMonitoring, stopMonitoring and the timer callbacks  *)
(* as concurrent tasks, each split at its awaits.  A timer is the          *)
(* [id, strategy] of its setInterval call; monitoring.session is the       *)
(* intervalId of the session in the map, 0 when the map has none.          *)

\* bound on the setInterval calls of one behaviour
MaxTimers == 2

\* bound on the health checks pushed to one session
MaxRaceChecks == 2

\* the sessions of an agent and its monitoring record after the synchronous
\* part of stopMonitoring: clearInterval(session.intervalId), sessions.delete
stopMonitoringTimers(m, live) ==
  IF live
    THEN [m EXCEPT !.timers = {t \in @ : t.id # m.session}, !.session = 0]
    ELSE m

\* startMonitoring up to its logger call: stopMonitoring
StartMonitoringBegin(c, agentId, strategy) ==
  /\ monitoring.starts[c].pc = "idle"
  /\ monitoring.created < MaxTimers
  /\ SetWorld(stopMonitoring(World, agentId))
  /\ monitoring' =
       [stopMonitoringTimers(monitoring, sessions[agentId].live)
          EXCEPT !.starts[c] = [pc |-> "logging", strategy |-> strategy]]
  /\ obs' = NoObs
  /\ UNCHANGED <<dispatchTotal, dispatchRun, workflow, approvalVars,
                 deployVars, workflowVars, limitVars, names, creating,
                 transiting>>

\* startMonitoring after its logger call: setInterval, sessions.set
StartMonitoringSet(c, agentId) ==
  LET id == monitoring.created + 1
      strategy == monitoring.starts[c].strategy
  IN
  /\ monitoring.starts[c].pc = "logging"
  /\ SetWorld([World EXCEPT !.sessions[agentId] =
                 [live |-> TRUE, strategy |-> strategy, healthHistory |-> <<>>]])
  /\ monitoring' =
       [monitoring EXCEPT !.timers = @ \cup {[id |-> id, strategy |-> strategy]},
                          !.session = id,
                          !.created = id,
                          !.starts[c].pc = "check"]
  /\ obs' = NoObs
  /\ UNCHANGED <<dispatchTotal, dispatchRun, workflow, approvalVars,
                 deployVars, workflowVars, limitVars, names, creating,
                 transiting>>

\* startMonitoring's initial performHealthCheck, and its return
StartMonitoringCheck(c, agentId, env) ==
  LET w == IF sessions[agentId].live
             THEN healthCheckBody(World, agentId, monitoring.starts[c].strategy,
                                  TRUE, env)
             ELSE World
  IN
  /\ monitoring.starts[c].pc = "check"
  /\ Len(sessions[agentId].healthHistory) < MaxRaceChecks
  /\ SetWorld(w)
  /\ monitoring' = [monitoring EXCEPT !.starts[c].pc = "idle"]
  /\ Observe("startMonitoring", agentId, "none", "void", w)
  /\ UNCHANGED <<dispatchTotal, dispatchRun, workflow, approvalVars,
                 deployVars, workflowVars, limitVars, names, creating,
                 transiting>>

\* stopMonitoring
StopMonitoringCall(agentId) ==
  /\ sessions[agentId].live \/ monitoring.timers # {}
  /\ SetWorld(stopMonitoring(World, agentId))
  /\ monitoring' =
       [stopMonitoringTimers(monitoring, sessions[agentId].live)
          EXCEPT !.tick.stopped = monitoring.tick.pc = "running"]
  /\ Observe("stopMonitoring", agentId, "none", "void", World)
  /\ UNCHANGED <<dispatchTotal, dispatchRun, workflow, approvalVars,
                 deployVars, workflowVars, limitVars, names, creating,
                 transiting>>

\* a live timer fires: performHealthCheck up to its first await, with a
\* session in the map
TimerFires(id, agentId) ==
  LET t == CHOOSE x \in monitoring.timers : x.id = id IN
  /\ \E x \in monitoring.timers : x.id = id
  /\ monitoring.tick.pc = "idle"
  /\ sessions[agentId].live
  /\ monitoring' =
       [monitoring EXCEPT !.tick = [pc |-> "running", timer |-> t.id,
                                    session |-> monitoring.session,
                                    strategy |-> t.strategy,
                                    stopped |-> FALSE]]
  /\ obs' = NoObs
  /\ UNCHANGED <<agents, plans, deployments, processes, containers, sessions,
                 recoveryAttempts, dispatchTotal, dispatchRun, workflow,
                 approvalVars, deployVars, workflowVars, limitVars, names,
                 creating, transiting>>

\* the health check in flight runs to its end; the argument observed tells
\* whether a stopMonitoring call returned while it was in flight and the
\* map holds no session
TimerCheckEnds(agentId, env) ==
  LET tick == monitoring.tick
      attached == sessions[agentId].live /\ monitoring.session = tick.session
      w == healthCheckBody(World, agentId, tick.strategy, attached, env)
  IN
  /\ tick.pc = "running"
  /\ Len(sessions[agentId].healthHistory) < MaxRaceChecks
  /\ SetWorld(w)
  /\ monitoring' = [monitoring EXCEPT !.tick = IdleTick]
  /\ Observe("performHealthCheck", agentId,
             IF tick.stopped /\ ~sessions[agentId].live
               THEN "stopped" ELSE "monitored",
             "void", w)
  /\ UNCHANGED <<dispatchTotal, dispatchRun, workflow, approvalVars,
                 deployVars, workflowVars, limitVars, names, creating,
                 transiting>>

\* the strategies of this specification: none, and restart on errors
RaceStrategies == {c \in AlertStrategies : Len(c) = 0 \/ c[1].action = "restart"}

\* the agent after its workflow's deployAgent and transitionState(ACTIVE)
MonitoredInit ==
  /\ agents = [a \in AgentIds |-> IF a \in KnownIds THEN "ACTIVE" ELSE NoAgent]
  /\ plans = [a \in AgentIds |->
                IF a \in KnownIds
                  THEN [exists |-> TRUE, alert_conditions |-> <<>>] ELSE NoPlan]
  /\ deployments = [a \in AgentIds |->
                      IF a \in KnownIds
                        THEN [target |-> "DOCKER", status |-> "running"]
                        ELSE NoDeployment]
  /\ processes = [a \in AgentIds |-> FALSE]
  /\ containers = [a \in AgentIds |-> a \in KnownIds]
  /\ sessions = [a \in AgentIds |-> NoSession]
  /\ recoveryAttempts = [a \in AgentIds |-> [f \in FailureTypes |-> 0]]
  /\ obs = NoObs
  /\ dispatchTotal = [a \in AgentIds |-> [f \in FailureTypes |-> 0]]
  /\ dispatchRun = [a \in AgentIds |-> [f \in FailureTypes |-> 0]]
  /\ workflow = [a \in AgentIds |-> "done"]
  /\ ApprovalInit
  /\ DeployVarsInit
  /\ WorkflowVarsInit
  /\ LimitVarsInit
  /\ TaskVarsInit

\* the container runtime answers every call of a check
RaceEnvs == {env \in Envs : env.ok /\ env.inspectOk}

TimersNext ==
  \/ \E a \in KnownIds : ContainerExit(a)
  \/ \E c \in Callers, a \in KnownIds, strategy \in RaceStrategies :
       StartMonitoringBegin(c, a, strategy)
  \/ \E c \in Callers, a \in KnownIds : StartMonitoringSet(c, a)
  \/ \E c \in Callers, a \in KnownIds, env \in RaceEnvs :
       StartMonitoringCheck(c, a, env)
  \/ \E a \in KnownIds : StopMonitoringCall(a)
  \/ \E id \in 1..MaxTimers, a \in KnownIds : TimerFires(id, a)
  \/ \E a \in KnownIds, env \in RaceEnvs : TimerCheckEnds(a, env)

SpecTimers == MonitoredInit /\ [][TimersNext]_vars

\* a faulty handler of the exception: the session is given up
healthCheckFailedDropsSession(w, agentId) ==
  [Called(w, "logger.error", "Health check failed")
     EXCEPT !.sessions[agentId] = NoSession]

\* performHealthCheck's catch block
healthCheckFailed(w, agentId) ==
  Called(w, "logger.error", "Health check failed")

\* the health check in flight ends in its catch block: getRecentErrors
\* raised, after isAgentRunning and before the result is built.  The calls
\* of a check that catch their own exceptions (isAgentRunning, sendAlert,
\* stopAgent, startAgent, handleUnhealthy's restart) end in TimerCheckEnds.
TimerCheckRaises(agentId) ==
  LET w == healthCheckFailed(World, agentId) IN
  /\ monitoring.tick.pc = "running"
  /\ getDeploymentStatus(World, agentId).status # "none"
  /\ SetWorld(w)
  /\ monitoring' = [monitoring EXCEPT !.tick = IdleTick]
  /\ Observe("performHealthCheck", agentId, "raised", "void", w)
  /\ UNCHANGED <<dispatchTotal, dispatchRun, workflow, approvalVars,
                 deployVars, workflowVars, limitVars, names, creating,
                 transiting>>

TimersFaultNext ==
  \/ TimersNext
  \/ \E a \in KnownIds : TimerCheckRaises(a)

SpecTimersFault == MonitoredInit /\ [][TimersFaultNext]_vars

-----------------------------------------------------------------------------
(* Stage 4 of the workflow waiting on its approval row, with the admin's   *)
(* responses arriving at any time, also after the wait has returned        *)

\* a caller that reads the row again instead of using what the wait returned
waitForApprovalResultFromRow(returned, rowStatus) == rowStatus

\* const status = await this.waitForApproval(approvalId, timeoutMs)
waitForApprovalResult(returned, rowStatus) == returned

\* the agent after Stages 1 to 3: its plan is saved, Stage 4 runs next
AwaitingInit ==
  /\ agents = [a \in AgentIds |->
                 IF a \in KnownIds THEN "SECURITY_DEFINED" ELSE NoAgent]
  /\ plans = [a \in AgentIds |->
                IF a \in KnownIds
                  THEN [exists |-> TRUE, alert_conditions |-> <<>>] ELSE NoPlan]
  /\ deployments = [a \in AgentIds |-> NoDeployment]
  /\ processes = [a \in AgentIds |-> FALSE]
  /\ containers = [a \in AgentIds |-> FALSE]
  /\ sessions = [a \in AgentIds |-> NoSession]
  /\ recoveryAttempts = [a \in AgentIds |-> [f \in FailureTypes |-> 0]]
  /\ obs = NoObs
  /\ dispatchTotal = [a \in AgentIds |-> [f \in FailureTypes |-> 0]]
  /\ dispatchRun = [a \in AgentIds |-> [f \in FailureTypes |-> 0]]
  /\ workflow = [a \in AgentIds |-> IF a \in KnownIds THEN "approval" ELSE "none"]
  /\ ApprovalInit
  /\ DeployVarsInit
  /\ WorkflowVarsInit
  /\ LimitVarsInit
  /\ TaskVarsInit

\* Stage 4 up to requestDetailedPlanApproval
StageApprovalBegin(agentId, riskLevel) ==
  /\ workflow[agentId] = "approval"
  /\ WorkflowStage(agentId, riskLevel,
                   [next |-> "awaiting",
                    w |-> stageApprovalBegin(World, agentId)])

\* requestDetailedPlanApproval returns with what waitForApproval returned
StageApprovalEnd(agentId) ==
  /\ workflow[agentId] = "awaiting"
  /\ waiter.pc = "done"
  /\ WorkflowStage(agentId, workflowRisk[agentId],
                   stageApprovalEnd(World, agentId, workflowRisk[agentId],
                                    waitForApprovalResult(waiter.ret,
                                                          approvalStatus)))

LateNext ==
  \/ \E a \in KnownIds, r \in {"SAFE", "CRITICAL"} : StageApprovalBegin(a, r)
  \/ \E a \in KnownIds, messageSent \in BOOLEAN :
       workflow[a] = "awaiting" /\ RequestApproval(messageSent)
  \/ RequestApprovalStoreMessageId
  \/ \E timeoutMs \in Timeouts : WaitForApproval(timeoutMs)
  \/ WaitForApprovalLoop
  \/ Tick
  \/ \E a \in KnownIds : StageApprovalEnd(a)
  \/ \E a \in KnownIds : StageGenerate(a)
  \/ HandleApprove
  \/ HandleReject
  \/ \E action \in {"approve", "reject"} : HandleCallbackQuery(action)
  \/ \E status \in {"APPROVED", "REJECTED"} : ProcessApproval(status)

SpecLate == AwaitingInit /\ [][LateNext]_vars

-----------------------------------------------------------------------------
(* Properties                                                              *)

HasCall(calls, fn, arg) ==
  \E i \in DOMAIN calls : calls[i] = [fn |-> fn, arg |-> arg]

HasCallTo(calls, fn) == \E i \in DOMAIN calls : calls[i].fn = fn

C2_DeletedIsTerminal ==
  [][\A a \in AgentIds : agents[a] = "DELETED" => agents'[a] = "DELETED"]_vars

\* C3: transitionState(agentId, DELETED) from WAITING_APPROVAL returns true
\* and the persisted state becomes DELETED.
C3_CancelWhilePending ==
  obs.op = "transitionState" /\ obs.pre = "WAITING_APPROVAL" /\ obs.arg = "DELETED"
    => obs.ret = "true" /\ agents[obs.agent] = "DELETED"

\* C4: the status of an approval request is written once after its request,
\* from PENDING to APPROVED, REJECTED or TIMEOUT, and never written again:
\* no write follows a write of a resolved status.
C4_StatusResolvedOnce ==
  \A i \in DOMAIN statusWrites :
    i < Len(statusWrites) => statusWrites[i] = "PENDING"

RespondedBeforeDeadline ==
  respondedAt # -1 /\ respondedAt < waiter.startTime + waiter.timeoutMs

\* C5: waitForApproval returns TIMEOUT exactly when no response was recorded
\* before the deadline; a response recorded before the deadline is returned,
\* at most one poll interval after it was recorded.
C5_TimeoutIffNoResponse ==
  waiter.pc = "done" =>
    /\ waiter.ret = "TIMEOUT" <=> ~RespondedBeforeDeadline
    /\ RespondedBeforeDeadline =>
         /\ waiter.ret \in {"APPROVED", "REJECTED"}
         /\ waiter.returnedAt <= respondedAt + pollIntervalMs

\* C6 as stated: a strategy is dispatched at most `ceiling` times for each
\* (agentId, failureClass) key, over any sequence of recover calls.
C6_TotalDispatchesAtMostCeiling ==
  \A a \in AgentIds, f \in FailureTypes : dispatchTotal[a][f] <= maxRetryAttempts

\* C6, amended: for each (agentId, failureClass) key, at most `ceiling`
\* strategies are dispatched since the last successful recovery of that key
\* (a success resets the key's counter, so the total is not bounded); the
\* key's counter is the number of these dispatches.
C6_DispatchesSinceSuccessAtMostCeiling ==
  \A a \in AgentIds, f \in FailureTypes :
    /\ dispatchRun[a][f] <= maxRetryAttempts
    /\ recoveryAttempts[a][f] = dispatchRun[a][f]

C6_Witness_CeilingAfterReset ==
  \E a \in AgentIds, f \in FailureTypes :
    /\ dispatchRun[a][f] = maxRetryAttempts
    /\ dispatchTotal[a][f] > maxRetryAttempts

\* C7: with the key's counter at the ceiling, recover dispatches no strategy
\* (no transition to GENERATING or DEPLOYING, no stop, no restart), sends the
\* admin "Recovery failed after <count> attempts: <failure class>", moves the
\* agent to FAILED through the StateManager, leaves the counter unchanged and
\* returns false.
C7_EscalationAtCeiling ==
  obs.op = "recover" /\ obs.pre # NoAgent /\ obs.preAttempts >= maxRetryAttempts =>
    /\ ~Dispatched(obs.calls)
    /\ ~HasCallTo(obs.calls, "stopAgent") /\ ~HasCallTo(obs.calls, "restartAgent")
    /\ ~HasCall(obs.calls, "updateAgentState", "GENERATING")
    /\ ~HasCall(obs.calls, "updateAgentState", "DEPLOYING")
    /\ HasCall(obs.calls, "sendError",
               "Recovery failed after " \o ToString(obs.preAttempts)
               \o " attempts: " \o obs.arg)
    /\ HasCall(obs.calls, "updateAgentState", "FAILED")
    /\ agents[obs.agent] = "FAILED"
    /\ recoveryAttempts[obs.agent][obs.arg] = obs.preAttempts
    /\ obs.ret = "false"

C7_Witness_Escalated ==
  /\ obs.op = "recover" /\ obs.arg = "deployment_failure"
  /\ obs.pre = "DEPLOYING" /\ obs.preAttempts = maxRetryAttempts
  /\ agents[obs.agent] = "FAILED"

\* C8: from GENERATING, the first two recover(agentId, generation_failure)
\* calls return true and leave the agent in GENERATING; with the ceiling
\* exhausted the next one moves the agent to FAILED and the recorded reason
\* is "Recovery failed after 3 attempts: generation_failure".
C8_GenerationFailureScenario ==
  obs.op = "recover" /\ obs.arg = "generation_failure" /\ obs.pre = "GENERATING" =>
    /\ obs.preAttempts < 2 => obs.ret = "true" /\ agents[obs.agent] = "GENERATING"
    /\ obs.preAttempts >= maxRetryAttempts =>
         /\ agents[obs.agent] = "FAILED"
         /\ HasCall(obs.calls, "logger.error",
                    "Agent transitioned to FAILED state: Recovery failed after "
                    \o ToString(maxRetryAttempts) \o " attempts: generation_failure")

\* the restarts handleUnhealthy attempted during the call
AutonomousRestarts(calls) ==
  Cardinality({i \in DOMAIN calls :
                 calls[i] = [fn |-> "restartAgent", arg |-> "handleUnhealthy"]})

UnhealthyInLastFive(history) ==
  Cardinality({i \in DOMAIN history :
                 i > Len(history) - 5 /\ history[i] = "unhealthy"})

C10_SessionOnlyWhileActive ==
  \A a \in AgentIds : sessions[a].live => agents[a] = "ACTIVE"

C12_AtMostOneLiveInstance ==
  \A a \in AgentIds :
    /\ procs[a].live \subseteq {procs[a].handle}
    /\ Cardinality(procs[a].live) + (IF containers[a] THEN 1 ELSE 0) <= 1

\* C18: a local deployAgent whose child exited during the sleep(2000) of
\* deployLocal returns success false and leaves no record with status running.
C18_EarlyExitFailsDeploy ==
  (deploying.pc = "done" /\ deploying.target = "LOCAL" /\ deploying.exited) =>
     /\ deploying.ret = "false"
     /\ deployments[deploying.agent].status # "running"

\* C16: shouldRequestApproval is true for CRITICAL and for SENSITIVE risk
\* with every approval type, and false for SAFE risk with INITIAL_PLAN.
C16_CriticalSensitiveAlwaysSafeInitialNever ==
  obs.op = "shouldRequestApproval" =>
    /\ workflowRisk[obs.agent] \in {"CRITICAL", "SENSITIVE"} => obs.ret = "true"
    /\ (workflowRisk[obs.agent] = "SAFE" /\ obs.arg = "INITIAL_PLAN") =>
         obs.ret = "false"

C16_Witness_SafeInitialPlan ==
  /\ obs.op = "shouldRequestApproval"
  /\ workflowRisk[obs.agent] = "SAFE"
  /\ obs.arg = "INITIAL_PLAN"
  /\ obs.ret = "false"

Logged(agentId, fn, arg) == [fn |-> fn, arg |-> arg] \in workflowLog[agentId]

Refused(agentId, approvalType) ==
  \/ Logged(agentId, "waitForApproval", approvalType \o ":REJECTED")
  \/ Logged(agentId, "waitForApproval", approvalType \o ":TIMEOUT")

LaterStageCalls == {"generateAgent", "validateAgent", "deployAgent", "startMonitoring"}

\* C13: the workflow calls deployAgent only after the detailed-plan approval
\* and, unless the risk level is SAFE, the deployment approval were returned
\* APPROVED and no approval of the agent was refused; it registers the
\* monitoring session only after deployAgent returned success and the agent
\* entered ACTIVE: by the workflow's own transition or, where that one was
\* refused, by an admin start before it, which leaves the agent in ACTIVE,
\* PAUSED or DELETED.
C13_DeployAfterApprovalsMonitorAfterActive ==
  \A a \in AgentIds :
    /\ (\E c \in workflowLog[a] : c.fn = "deployAgent") =>
         /\ Logged(a, "waitForApproval", "DETAILED_PLAN:APPROVED")
         /\ workflowRisk[a] # "SAFE" =>
              Logged(a, "waitForApproval", "DEPLOYMENT:APPROVED")
         /\ \A t \in ApprovalType : ~Refused(a, t)
    /\ Logged(a, "startMonitoring", a) =>
         /\ Logged(a, "deployAgent", "true")
         /\ \/ Logged(a, "updateAgentState", "ACTIVE")
            \/ agents[a] \in {"ACTIVE", "PAUSED", "DELETED"}

C13_Witness_MonitoredAfterBothApprovals ==
  \E a \in AgentIds :
    /\ Logged(a, "startMonitoring", a)
    /\ Logged(a, "waitForApproval", "DEPLOYMENT:APPROVED")
    /\ Logged(a, "waitForApproval", "DETAILED_PLAN:APPROVED")
    /\ sessions[a].live
    /\ agents[a] = "ACTIVE"

\* C14: an approval returned REJECTED or TIMEOUT ends the workflow with the
\* agent in FAILED, and the workflow makes no generation, validation,
\* deployment or monitoring call after it.
C14_RefusalFailsAgentAndEndsWorkflow ==
  /\ \A a \in AgentIds :
       /\ (\E t \in ApprovalType : Refused(a, t)) =>
            /\ workflow[a] = "done"
            /\ ~Logged(a, "startMonitoring", a)
            /\ \A c \in workflowLog[a] : c.fn # "deployAgent"
       /\ (Refused(a, "INITIAL_PLAN") \/ Refused(a, "DETAILED_PLAN")) =>
            \A c \in workflowLog[a] : c.fn \notin LaterStageCalls
  /\ (obs.op = "workflow"
        /\ \E i \in DOMAIN obs.calls, t \in ApprovalType :
             obs.calls[i] \in {[fn |-> "waitForApproval", arg |-> t \o ":REJECTED"],
                               [fn |-> "waitForApproval", arg |-> t \o ":TIMEOUT"]})
       => /\ agents[obs.agent] = "FAILED"
          /\ HasCall(obs.calls, "updateAgentState", "FAILED")
          /\ \A i \in DOMAIN obs.calls : obs.calls[i].fn \notin LaterStageCalls

C14_Witness_DeploymentTimedOut ==
  /\ obs.op = "workflow"
  /\ HasCall(obs.calls, "waitForApproval", "DEPLOYMENT:TIMEOUT")
  /\ agents[obs.agent] = "FAILED"
  /\ workflow[obs.agent] = "done"
  /\ Logged(obs.agent, "validateAgent", "true")

\* the places in a stage's calls where a gated stage has failed
FailuresIn(calls) ==
  {i \in DOMAIN calls :
     \/ /\ calls[i].fn = "waitForApproval"
        /\ \E t \in ApprovalType : calls[i].arg \in {t \o ":REJECTED", t \o ":TIMEOUT"}
     \/ calls[i] = [fn |-> "validateAgent", arg |-> "false"]
     \/ calls[i] = [fn |-> "deployAgent", arg |-> "false"]
     \/ calls[i] = [fn |-> "logger.error",
                    arg |-> "Agent transitioned to FAILED state: Workflow error"]}

Notifications == {"sendError", "sendAlert", "sendSuccess", "sendStatusUpdate"}

\* C15: after every failure of a gated stage the workflow sends the admin at
\* least one notification, and every move to FAILED is logged with a
\* non-empty reason.
C15_FailureNotifiesAdmin ==
  obs.op = "workflow" =>
    /\ \A i \in FailuresIn(obs.calls) :
         \E j \in DOMAIN obs.calls : j > i /\ obs.calls[j].fn \in Notifications
    /\ \A i \in DOMAIN obs.calls :
         obs.calls[i] = [fn |-> "updateAgentState", arg |-> "FAILED"] =>
           /\ i < Len(obs.calls)
           /\ obs.calls[i + 1].fn = "logger.error"
           /\ Len(obs.calls[i + 1].arg) > Len("Agent transitioned to FAILED state: ")

\* C20: every recover call completes by returning a boolean, whichever
\* collaborator call raises during it.
C20_RecoverReturnsBoolean ==
  obs.op = "recover" => obs.ret \in {"true", "false"}

\* C19: a container deploy translates the memory limit "<n>m" to n*1048576
\* bytes and "<n>g" to n*1073741824 bytes ("512m" to 536870912), and the
\* CPU limit "0.5" to 500000000 nano-CPUs.
C19_ResourceLimitTranslation ==
  hostConfig.built /\ hostConfig.limits.resource_limits =>
    /\ \A n \in 0..MaxMemoryValue :
         hostConfig.limits.memory_limit = decimal(n) \o <<"m">>
           => hostConfig.limits.Memory = Number(n * 1048576)
    /\ \A n \in GigabyteValues :
         hostConfig.limits.memory_limit = decimal(n) \o <<"g">>
           => hostConfig.limits.Memory = Number(n * 1073741824)
    /\ hostConfig.limits.memory_limit = <<"5", "1", "2", "m">>
         => hostConfig.limits.Memory = Number(536870912)
    /\ hostConfig.limits.cpu_limit = <<"0", ".", "5">>
         => hostConfig.limits.NanoCpus = Number(500000000)

C19_Witness_HalfCoreHalfGigabyte ==
  /\ hostConfig.built
  /\ hostConfig.limits.resource_limits
  /\ hostConfig.limits.memory_limit = <<"5", "1", "2", "m">>
  /\ hostConfig.limits.cpu_limit = <<"0", ".", "5">>
  /\ hostConfig.limits.Memory = Number(512 * 1048576)
  /\ hostConfig.limits.NanoCpus = Number(500000000)

\* C22: when recover(agentId, failureClass) returns true, the attempt counter
\* of that (agentId, failureClass) key is zero afterwards and the counter of
\* every other key is what it was before the call.
C22_SuccessClearsOnlyItsCounter ==
  [][obs'.op = "recover" /\ obs'.ret = "true" =>
       \A a \in AgentIds, f \in FailureTypes :
         recoveryAttempts'[a][f] =
           IF a = obs'.agent /\ f = obs'.arg THEN 0 ELSE recoveryAttempts[a][f]]_vars

C22_Witness_ClearedBesideAnotherCounter ==
  /\ obs.op = "recover"
  /\ obs.ret = "true"
  /\ obs.preAttempts > 0
  /\ recoveryAttempts[obs.agent][obs.arg] = 0
  /\ \E f \in FailureTypes : recoveryAttempts[obs.agent][f] > 0

\* C24: an agent's persisted state is GENERATING, VALIDATING, DEPLOYING or
\* ACTIVE only if a DETAILED_PLAN approval of its workflow was resolved
\* APPROVED earlier.
C24_BuildStatesOnlyAfterDetailedApproval ==
  \A a \in AgentIds :
    agents[a] \in {"GENERATING", "VALIDATING", "DEPLOYING", "ACTIVE"}
      => Logged(a, "waitForApproval", "DETAILED_PLAN:APPROVED")

\* C28: once an agent's state is DELETED, no process and no container runs
\* for it, whatever admin stop, start and delete commands follow.
C28_DeletedAgentRunsNothing ==
  \A a \in AgentIds :
    agents[a] = "DELETED" => ~processes[a] /\ ~containers[a]

\* C29: after an agent is deleted its deployment record is removed:
\* getDeploymentStatus returns no record for it.
C29_DeletedAgentHasNoDeploymentRecord ==
  \A a \in AgentIds :
    agents[a] = "DELETED" => getDeploymentStatus(World, a) = NoDeployment

\* the states the workflow passes through on its way to ACTIVE
IntermediateStates ==
  {"PLANNING_INITIAL", "PLANNING_DETAILED", "WAITING_APPROVAL", "GENERATING",
   "VALIDATING", "DEPLOYING"}

\* C23: every creation workflow settles: with the workflow task scheduled
\* fairly and every approval answered or timed out, the workflow of an agent
\* that createAgent created finishes, with the recovery it triggered, and
\* the agent does not stay in an intermediate state after that.
C23_WorkflowSettles ==
  \A a \in KnownIds :
    agents[a] # NoAgent
      ~> (workflow[a] = "done" /\ agents[a] \notin IntermediateStates)

\* C21: agent names are unique: createAgent with a name that an agent row
\* already has fails with an error, creates no row and starts no workflow,
\* also when two createAgent calls for the same name interleave.
C21_NamesUnique ==
  /\ \A a, b \in AgentIds :
       names[a] # "none" /\ names[a] = names[b] => a = b
  /\ \A c \in Callers :
       creating[c].pc = "done" /\ creating[c].used => creating[c].ret = "error"
  /\ \A c \in Callers :
       creating[c].ret \in AgentIds => names[creating[c].ret] = creating[c].name
  /\ \A a \in AgentIds :
       (workflow[a] # "none" \/ agents[a] # NoAgent) => names[a] # "none"

C21_Witness_InterleavedDuplicateRejected ==
  \E c, d \in Callers :
    /\ creating[c].pc = "done" /\ creating[d].pc = "done"
    /\ creating[c].name = creating[d].name
    /\ creating[c].ret \in AgentIds
    /\ creating[d].ret = "error"
    /\ creating[d].failedAt = "insert"
    /\ Cardinality({a \in AgentIds : names[a] = creating[d].name}) = 1

\* C25: at most one transition request per agent is in flight at a time: no
\* transitionState call that returned true has its update overwritten by
\* another call that validated against the same earlier state.
C25_NoLostTransition ==
  \A g, h \in AdminCommands :
    ~ /\ g # h
      /\ transiting[g].pc = "done" /\ transiting[g].ret = "true"
      /\ transiting[h].pc = "done" /\ transiting[h].ret = "true"
      /\ transiting[g].agent = transiting[h].agent
      /\ transiting[g].fromState = transiting[h].fromState
      /\ transiting[h].overwrote = transiting[g].toState
      /\ transiting[h].overwrote # transiting[h].fromState

\* C26: after any sequence or interleaving of startMonitoring and
\* stopMonitoring calls for one agent, at most one session and at most one
\* live periodic timer exist for it, and stopMonitoring leaves no session
\* and no timer.
C26_AtMostOneTimer ==
  /\ Cardinality(monitoring.timers) <= 1
  /\ obs.op = "stopMonitoring"
       => ~sessions[obs.agent].live /\ monitoring.timers = {}

\* C27: after stopMonitoring has returned, no health check of the agent
\* records a result, fires an alert action or restarts the agent, also not
\* a check that was in flight when the session was removed.
C27_NoCheckAfterStop ==
  obs.op = "performHealthCheck" /\ obs.arg = "stopped" =>
    /\ ~HasCallTo(obs.calls, "healthCheck")
    /\ ~HasCallTo(obs.calls, "sendAlert")
    /\ ~HasCallTo(obs.calls, "restartAgent")
    /\ ~HasCallTo(obs.calls, "stopAgent")

\* C30: once waitForApproval has returned TIMEOUT to Stage 4, a response
\* recorded afterwards changes the row only: the workflow has ended, the agent
\* is FAILED, and no generation or deployment was started for it
C30_LateResponseHasNoEffect ==
  \A a \in KnownIds :
    (waiter.pc = "done" /\ waiter.ret = "TIMEOUT" /\ workflow[a] # "awaiting")
      => /\ workflow[a] = "done"
         /\ agents[a] = "FAILED"
         /\ \A c \in workflowLog[a] :
              c.fn \notin {"generateAgent", "validateAgent", "deployAgent",
                           "startMonitoring"}

\* C30 witness: the wait returned TIMEOUT, the admin's approval was stored in
\* the row after it, and the agent is FAILED with its workflow ended
C30_Witness_ApprovalStoredAfterTimeout ==
  /\ waiter.pc = "done"
  /\ waiter.ret = "TIMEOUT"
  /\ approvalStatus = "APPROVED"
  /\ workflow["a1"] = "done"
  /\ agents["a1"] = "FAILED"

\* C31: a response recorded while requestApproval is still running is kept:
\* no step writes PENDING over an APPROVED or REJECTED row, so the row still
\* holds the response when waitForApproval starts to poll
C31_ResponseDuringRequestKept ==
  [][(approvalStatus = "APPROVED" \/ approvalStatus = "REJECTED")
       => approvalStatus' # "PENDING"]_vars

\* C32 as stated: waitForApproval on an id without a row fails with NotFound
\* for every timeoutMs; it does not return TIMEOUT and writes no status
C32_UnknownIdAlwaysNotFound ==
  (waiter.pc = "done" /\ approvalStatus = NoApproval)
    => waiter.ret = NotFound /\ statusWrites = <<>>

\* C32, amended: waitForApproval on an id without a row fails with NotFound
\* at its first poll when timeoutMs is positive; with timeoutMs <= 0 the loop
\* body never runs and it returns TIMEOUT; no status is written either way
C32_UnknownIdNotFoundAtFirstPoll ==
  (waiter.pc = "done" /\ approvalStatus = NoApproval)
    => /\ waiter.timeoutMs > 0 => waiter.ret = NotFound
       /\ waiter.timeoutMs <= 0 => waiter.ret = "TIMEOUT"
       /\ waiter.returnedAt = waiter.startTime
       /\ statusWrites = <<>>

\* C32 witness: a call with a positive timeout on an unknown id failed with
\* NotFound
C32_Witness_NotFoundThrown ==
  /\ waiter.pc = "done"
  /\ approvalStatus = NoApproval
  /\ waiter.timeoutMs = pollIntervalMs
  /\ waiter.ret = NotFound

\* C33: recover(agentId, deployment_failure) on an agent in DEPLOYING with
\* attempts remaining stops the deployment, re-enters DEPLOYING through
\* transitionState and returns true
C33_DeploymentFailureRetried ==
  (/\ obs.op = "recover" /\ obs.arg = "deployment_failure"
   /\ obs.pre = "DEPLOYING" /\ obs.preAttempts < maxRetryAttempts)
    => /\ HasCall(obs.calls, "stopAgent", "recover")
       /\ HasCall(obs.calls, "updateAgentState", "DEPLOYING")
       /\ agents[obs.agent] = "DEPLOYING"
       /\ obs.ret = "true"

\* C34: startAgent on a local deployment whose redeploy (install, build or
\* spawn) fails returns false and does not set the record's status to running
C34_StartFailsWhenRedeployFails ==
  (obs.op = "startAgent" /\ obs.arg = "false")
    => /\ obs.ret = "false"
       /\ ~HasCall(obs.calls, "deployment.status", "running")

\* C35: an agent stopped by a 'pause' alert action stays stopped through the
\* MonitorEngine's later ticks: no tick of its session starts it again
C35_PausedStaysStopped ==
  [][\A a \in KnownIds :
       (/\ deployments[a].status = "stopped"
        /\ obs'.op = "performHealthCheck" /\ obs'.agent = a)
         => (deployments'[a].status = "stopped" /\ ~containers'[a])]_vars

\* the result a tick is to append for what it read
ExpectedStatus(inputs) ==
  IF \E n \in {0, alertErrorThreshold + 1} : inputs = CheckInputs(FALSE, n)
    THEN "unhealthy"
  ELSE IF inputs = CheckInputs(TRUE, alertErrorThreshold + 1) THEN "degraded"
  ELSE "healthy"

C37_HistoryCappedOldestEvicted ==
  historyPush.pushed =>
    LET before == historyPush.healthHistory
        after == historyPush.after
    IN /\ Len(after) <= healthHistoryLimit
       /\ Len(before) < healthHistoryLimit
            => after = Append(before, historyPush.healthStatus)
       /\ Len(before) = healthHistoryLimit
            => /\ Len(after) = healthHistoryLimit
               /\ after[healthHistoryLimit] = historyPush.healthStatus
               /\ \A i \in 1..(healthHistoryLimit - 1) : after[i] = before[i + 1]

\* C37 witness: a result was pushed onto a full history whose two oldest
\* results differ, and the second oldest is now the first
C37_Witness_OldestEvicted ==
  /\ historyPush.pushed
  /\ Len(historyPush.healthHistory) = healthHistoryLimit
  /\ historyPush.healthHistory[1] # historyPush.healthHistory[2]
  /\ Len(historyPush.after) = healthHistoryLimit
  /\ historyPush.after[1] = historyPush.healthHistory[2]

\* C38: an exception raised during a tick is caught and logged, and the
\* session and its timer remain: the step that ends the tick in the catch
\* block logs the failure, changes no session and no timer, and leaves the
\* tick slot free, so that the timer fires again
C38_RaisedTickKeepsSession ==
  [][(obs'.op = "performHealthCheck" /\ obs'.arg = "raised")
       => /\ HasCall(obs'.calls, "logger.error", "Health check failed")
          /\ sessions' = sessions
          /\ monitoring'.timers = monitoring.timers
          /\ monitoring'.session = monitoring.session
          /\ monitoring'.tick.pc = "idle"
          /\ deployments' = deployments /\ containers' = containers]_vars

\* C38 witness: a tick of a live session ended in the catch block, and the
\* session's timer is still set
C38_Witness_RaisedWithLiveSession ==
  /\ obs.op = "performHealthCheck" /\ obs.arg = "raised"
  /\ sessions[obs.agent].live
  /\ \E t \in monitoring.timers : t.id = monitoring.session
  /\ monitoring.tick.pc = "idle"

\* C39: recover(agentId, runtime_crash) with attempts remaining calls
\* restartAgent, makes no state transition, and leaves the agent's persisted
\* state as it was
C39_RuntimeCrashRestartsWithoutTransition ==
  (/\ obs.op = "recover" /\ obs.arg = "runtime_crash"
   /\ obs.pre # NoAgent /\ obs.preAttempts < maxRetryAttempts)
    => /\ HasCall(obs.calls, "restartAgent", "recover")
       /\ ~HasCallTo(obs.calls, "updateAgentState")
       /\ agents[obs.agent] = obs.pre

\* C39 witness: a crash of an ACTIVE agent was recovered by a restart that
\* failed, and the agent is still ACTIVE
C39_Witness_FailedRestartKeepsState ==
  /\ obs.op = "recover" /\ obs.arg = "runtime_crash"
  /\ obs.pre = "ACTIVE" /\ obs.preAttempts < maxRetryAttempts
  /\ obs.ret = "false"
  /\ HasCall(obs.calls, "restartAgent", "recover")
  /\ agents[obs.agent] = "ACTIVE"

\* C40: recover with a failure class outside the four named ones moves the
\* agent to FAILED through transitionToFailed and returns false; it never
\* returns true and never clears the attempt counter
C40_OtherFailureClassIsTerminal ==
  (/\ obs.op = "recover" /\ obs.pre # NoAgent
   /\ obs.arg \in FailureTypes
   /\ obs.arg \notin {"generation_failure", "validation_failure",
                      "deployment_failure", "runtime_crash"})
    => /\ obs.ret = "false"
       /\ HasCall(obs.calls, "updateAgentState", "FAILED")
       /\ agents[obs.agent] = "FAILED"
       /\ recoveryAttempts[obs.agent][obs.arg] =
            IF obs.preAttempts < maxRetryAttempts
              THEN obs.preAttempts + 1 ELSE obs.preAttempts

\* C40 witness: a second recover with an unknown failure class on an ACTIVE
\* agent went through the default path and left the agent FAILED, with both
\* attempts counted
C40_Witness_DefaultPathCounted ==
  /\ obs.op = "recover" /\ obs.arg = "unknown_failure"
  /\ obs.pre = "ACTIVE" /\ obs.preAttempts = 1
  /\ HasCall(obs.calls, "dispatch", "manual_intervention")
  /\ obs.ret = "false"
  /\ agents[obs.agent] = "FAILED"
  /\ recoveryAttempts[obs.agent]["unknown_failure"] = 2

====
